---- MODULE Spec2Model ----
(***************************************************************************)
(* Model of the RTanks statistics core: the caching translator             *)
(* (src/translator.py) and the page scraper (src/scraper.py).              *)
(*                                                                         *)
(* Text is a sequence of Unicode code points, so that ord(), isalpha(),    *)
(* lower(), strip() and the regular expressions of the source are computed *)
(* character by character.                                                 *)
(***************************************************************************)
EXTENDS Integers, Sequences, FiniteSets, TLC

(***************************************************************************)
(* Characters and strings (Python str semantics on the modelled alphabet:  *)
(* basic Latin, Russian Cyrillic, digits, white space, punctuation).       *)
(***************************************************************************)

IsLatinUpper(c) == c >= 65 /\ c <= 90
IsLatinLower(c) == c >= 97 /\ c <= 122
IsCyrUpper(c) == (c >= 1040 /\ c <= 1071) \/ c = 1025
IsCyrLower(c) == (c >= 1072 /\ c <= 1103) \/ c = 1105

\* str.isalpha() of one character
IsAlpha(c) == IsLatinUpper(c) \/ IsLatinLower(c) \/ IsCyrUpper(c) \/ IsCyrLower(c)

\* white space as str.strip() and the regex class \s see it (9..13, space, NBSP)
IsSpace(c) == (c >= 9 /\ c <= 13) \/ c = 32 \/ c = 160

\* the regex class \d on the modelled alphabet: '0'..'9'
IsDigit(c) == c >= 48 /\ c <= 57

\* str.lower() of one character
LowerChar(c) ==
    IF IsLatinUpper(c) THEN c + 32
    ELSE IF c >= 1040 /\ c <= 1071 THEN c + 32
    ELSE IF c = 1025 THEN 1105
    ELSE c

\* str.upper() of one character
UpperChar(c) ==
    IF IsLatinLower(c) THEN c - 32
    ELSE IF c >= 1072 /\ c <= 1103 THEN c - 32
    ELSE IF c = 1105 THEN 1025
    ELSE c

\* str.title(): a letter that follows a letter is lower-cased, any other
\* letter is upper-cased
Title(s) ==
    [i \in 1..Len(s) |->
        IF i > 1 /\ IsAlpha(s[i - 1]) THEN LowerChar(s[i]) ELSE UpperChar(s[i])]

\* str.lower()
Lower(s) == [i \in 1..Len(s) |-> LowerChar(s[i])]

\* s[:n]: the first n elements of a sequence, or all of it if it is shorter
Prefix(s, n) == IF Len(s) <= n THEN s ELSE SubSeq(s, 1, n)

\* str.strip(): drop leading and trailing white space
Strip(s) ==
    LET keep == {i \in 1..Len(s) : ~IsSpace(s[i])}
    IN IF keep = {} THEN <<>>
       ELSE LET lo == CHOOSE i \in keep : \A j \in keep : i <= j
                hi == CHOOSE i \in keep : \A j \in keep : j <= i
            IN SubSeq(s, lo, hi)

\* dict(...) from a set of <<key, value>> pairs
PairsToMap(pairs) ==
    [k \in {p[1] : p \in pairs} |-> (CHOOSE p \in pairs : p[1] = k)[2]]

\* `sub in s` for strings
Contains(sub, s) ==
    \E i \in 0..(Len(s) - Len(sub)) :
        \A j \in 1..Len(sub) : s[i + j] = sub[j]

\* s.replace(c, '') for a one-character c
RECURSIVE RemoveChar(_, _)
RemoveChar(s, c) ==
    IF s = <<>> THEN <<>>
    ELSE IF Head(s) = c THEN RemoveChar(Tail(s), c)
    ELSE <<Head(s)>> \o RemoveChar(Tail(s), c)

\* s.replace(c, d) for one-character c and d
ReplaceChar(s, c, d) == [i \in 1..Len(s) |-> IF s[i] = c THEN d ELSE s[i]]

\* s.split(c)[-1]: what follows the last c (all of s when there is none)
LastSegment(s, c) ==
    LET at == {i \in 1..Len(s) : s[i] = c}
    IN IF at = {} THEN s
       ELSE SubSeq(s, (CHOOSE i \in at : \A j \in at : j <= i) + 1, Len(s))

\* the value of a string of ASCII digits
RECURSIVE DigitsValue(_)
DigitsValue(s) ==
    IF s = <<>> THEN 0
    ELSE 10 * DigitsValue(SubSeq(s, 1, Len(s) - 1)) + (s[Len(s)] - 48)

\* Python values of more than one type are tagged: <<"int", n>>, <<"str", s>>,
\* <<"None">>, <<"raise", exception>>.
PyNone == <<"None">>
PyStr(s) == <<"str", s>>
PyIntVal(n) == <<"int", n>>
ValueError == <<"raise", "ValueError">>

\* int(s): white space is stripped at both ends, then an optional sign and ASCII
\* digits, single underscores allowed between digits; anything else raises
\* ValueError.
IsIntBody(body) ==
    /\ body # <<>>
    /\ \A i \in 1..Len(body) : IsDigit(body[i]) \/ body[i] = 95
    /\ IsDigit(body[1]) /\ IsDigit(body[Len(body)])
    /\ \A i \in 1..(Len(body) - 1) : ~(body[i] = 95 /\ body[i + 1] = 95)
PyIntOf(negative, body) ==
    IF ~IsIntBody(body) THEN ValueError
    ELSE IF negative THEN PyIntVal(0 - DigitsValue(RemoveChar(body, 95)))
    ELSE PyIntVal(DigitsValue(RemoveChar(body, 95)))
PyIntStripped(t) ==
    IF t # <<>> /\ t[1] \in {43, 45} THEN PyIntOf(t[1] = 45, Tail(t))
    ELSE PyIntOf(FALSE, t)
PyInt(s) == PyIntStripped(Strip(s))

(***************************************************************************)
(* RTanksTranslator                                                        *)
(***************************************************************************)

\* the rank name both translate_rank and _extract_rank_from_image fall back to
StrUnknownRank == <<85, 110, 107, 110, 111, 119, 110, 32, 82, 97, 110, 107>>    \* 'Unknown Rank'

common_translations ==
    PairsToMap({
       \* 'уничтожил': 'destroyed'
       <<<<1091, 1085, 1080, 1095, 1090, 1086, 1078, 1080, 1083>>,
         <<100, 101, 115, 116, 114, 111, 121, 101, 100>>>>,
       \* 'подбит': 'destroyed'
       <<<<1087, 1086, 1076, 1073, 1080, 1090>>,
         <<100, 101, 115, 116, 114, 111, 121, 101, 100>>>>,
       \* 'группа': 'group'
       <<<<1075, 1088, 1091, 1087, 1087, 1072>>,
         <<103, 114, 111, 117, 112>>>>,
       \* 'игрок': 'player'
       <<<<1080, 1075, 1088, 1086, 1082>>,
         <<112, 108, 97, 121, 101, 114>>>>,
       \* 'премиум': 'premium'
       <<<<1087, 1088, 1077, 1084, 1080, 1091, 1084>>,
         <<112, 114, 101, 109, 105, 117, 109>>>>,
       \* 'да': 'yes'
       <<<<1076, 1072>>,
         <<121, 101, 115>>>>,
       \* 'нет': 'no'
       <<<<1085, 1077, 1090>>,
         <<110, 111>>>>,
       \* 'поймано золотых ящиков': 'gold boxes caught'
       <<<<1087, 1086, 1081, 1084, 1072, 1085, 1086, 32, 1079, 1086, 1083, 1086, 1090, 1099, 1093, 32, 1103, 1097, 1080, 1082, 1086, 1074>>,
         <<103, 111, 108, 100, 32, 98, 111, 120, 101, 115, 32, 99, 97, 117, 103, 104, 116>>>>,
       \* 'опыт': 'experience'
       <<<<1086, 1087, 1099, 1090>>,
         <<101, 120, 112, 101, 114, 105, 101, 110, 99, 101>>>>,
       \* 'кристаллы': 'crystals'
       <<<<1082, 1088, 1080, 1089, 1090, 1072, 1083, 1083, 1099>>,
         <<99, 114, 121, 115, 116, 97, 108, 115>>>>,
       \* 'эффективность': 'efficiency'
       <<<<1101, 1092, 1092, 1077, 1082, 1090, 1080, 1074, 1085, 1086, 1089, 1090, 1100>>,
         <<101, 102, 102, 105, 99, 105, 101, 110, 99, 121>>>>,
       \* 'рейтинг': 'rating'
       <<<<1088, 1077, 1081, 1090, 1080, 1085, 1075>>,
         <<114, 97, 116, 105, 110, 103>>>>,
       \* 'место': 'rank'
       <<<<1084, 1077, 1089, 1090, 1086>>,
         <<114, 97, 110, 107>>>>,
       \* 'киллы': 'kills'
       <<<<1082, 1080, 1083, 1083, 1099>>,
         <<107, 105, 108, 108, 115>>>>,
       \* 'смерти': 'deaths'
       <<<<1089, 1084, 1077, 1088, 1090, 1080>>,
         <<100, 101, 97, 116, 104, 115>>>>,
       \* 'установленный': 'equipped'
       <<<<1091, 1089, 1090, 1072, 1085, 1086, 1074, 1083, 1077, 1085, 1085, 1099, 1081>>,
         <<101, 113, 117, 105, 112, 112, 101, 100>>>>,
       \* 'стоимость': 'cost'
       <<<<1089, 1090, 1086, 1080, 1084, 1086, 1089, 1090, 1100>>,
         <<99, 111, 115, 116>>>>})

\* Texts handed to translate_text.
TxtEmpty == <<>>                                       \* ''
TxtHello == <<72, 101, 108, 108, 111>>                 \* 'Hello'
TxtNum == <<52, 50>>                                   \* '42'
TxtDa == <<1076, 1072>>                                \* 'да'
TxtDaPadded == <<32, 1044, 1072, 32>>                  \* ' Да '
TxtNet == <<1053, 1045, 1058>>                         \* 'НЕТ'
TxtPrivet == <<1087, 1088, 1080, 1074, 1077, 1090>>    \* 'привет'
TxtTank == <<1090, 1072, 1085, 1082>>                  \* 'танк'
TxtYes == <<121, 101, 115>>                            \* 'yes'
TxtNo == <<110, 111>>                                  \* 'no'

Texts == {TxtEmpty, TxtHello, TxtNum, TxtDa, TxtDaPadded, TxtNet, TxtPrivet, TxtTank}

\* The text the racing executor threads are called with: the uncached Russian 'привет'.
RaceTexts == {TxtPrivet}

\* The texts of racing calls that may also differ: 'привет' and 'танк', both
\* uncached, Russian and in no dictionary.
DupTexts == {TxtPrivet, TxtTank}

\* Non-empty texts the external translate call may answer with: 'hi', 'hello'.
ExtOutputs == {<<104, 105>>, <<104, 101, 108, 108, 111>>}

\* Executor threads running translate_text (translate_text_async).
NThreads == 2
Threads == 1..NThreads

VARIABLES
    cache,      \* RTanksTranslator.cache: text -> text
    tpc,        \* per thread: where it is inside translate_text
    targ,       \* per thread: the parameter 'text' of the running call
    tval,       \* per thread: the local 'translated' of the running call
    tsvc,       \* per thread: how the external service behaved in the running call
    tret,       \* per thread: the last completed call (text, result, service behaviour)
    tprev,      \* per thread: the completed call before that one
    tcache0     \* per thread: the cache as it was when the last call was entered

tvars == <<cache, tpc, targ, tval, tsvc, tret, tprev, tcache0>>

EmptyCache == [k \in {} |-> <<>>]

NoCall == [text |-> <<>>, result |-> <<>>, ext |-> "nocall"]

\* all(ord(char) < 128 for char in text if char.isalpha())
IsEnglishText(text) ==
    \A i \in 1..Len(text) : IsAlpha(text[i]) => text[i] < 128

\* (mutant) the dictionary key is only stripped, not lower-cased
Normalized_NoLower(text) == Strip(text)

\* text.lower().strip()
Normalized(text) == Strip(Lower(text))

\* self.cache[key] = value
CachePut(c, key, value) ==
    [k \in DOMAIN c \cup {key} |-> IF k = key THEN value ELSE c[k]]

\* `return <result>` from translate_text; ext is how the external service
\* behaved in this call ("none": it was not invoked)
ReturnText(th, result, ext) ==
    /\ tpc' = [tpc EXCEPT ![th] = "idle"]
    /\ tret' = [tret EXCEPT ![th] = [text |-> targ[th], result |-> result, ext |-> ext]]
    /\ targ' = [targ EXCEPT ![th] = <<>>]
    /\ tval' = [tval EXCEPT ![th] = <<>>]
    /\ tsvc' = [tsvc EXCEPT ![th] = "none"]

\* translate_text(text) is entered
TranslateTextCall(th, text) ==
    /\ tpc[th] = "idle"
    /\ targ' = [targ EXCEPT ![th] = text]
    /\ tpc' = [tpc EXCEPT ![th] = "check"]
    /\ UNCHANGED <<cache, tval, tsvc, tret>>

\* (mutant) translate_text without its `if text in self.cache` lookup
CheckCache_NoLookup(th) ==
    /\ tpc[th] = "check"
    /\ LET text == targ[th] IN
       IF text = <<>> THEN
            /\ ReturnText(th, <<>>, "none")
            /\ UNCHANGED cache
       ELSE IF IsEnglishText(text) THEN
            /\ cache' = CachePut(cache, text, text)
            /\ ReturnText(th, text, "none")
       ELSE IF Normalized(text) \in DOMAIN common_translations THEN
            /\ cache' = CachePut(cache, text, common_translations[Normalized(text)])
            /\ ReturnText(th, common_translations[Normalized(text)], "none")
       ELSE
            /\ tpc' = [tpc EXCEPT ![th] = "ext"]
            /\ UNCHANGED <<cache, targ, tval, tsvc, tret>>

\* (mutant) a call waits while another thread is translating the same text
CheckCache_WaitForOther(th) ==
    /\ tpc[th] = "check"
    /\ \A other \in Threads \ {th} :
            ~(tpc[other] \in {"ext", "store"} /\ targ[other] = targ[th])
    /\ LET text == targ[th] IN
       IF text = <<>> THEN
            /\ ReturnText(th, <<>>, "none")
            /\ UNCHANGED cache
       ELSE IF text \in DOMAIN cache THEN
            /\ tpc' = [tpc EXCEPT ![th] = "hit"]
            /\ UNCHANGED <<cache, targ, tval, tsvc, tret>>
       ELSE IF IsEnglishText(text) THEN
            /\ cache' = CachePut(cache, text, text)
            /\ ReturnText(th, text, "none")
       ELSE IF Normalized(text) \in DOMAIN common_translations THEN
            /\ cache' = CachePut(cache, text, common_translations[Normalized(text)])
            /\ ReturnText(th, common_translations[Normalized(text)], "none")
       ELSE
            /\ tpc' = [tpc EXCEPT ![th] = "ext"]
            /\ UNCHANGED <<cache, targ, tval, tsvc, tret>>

\* `if not text` / `if text in self.cache` / already English / common dictionary
CheckCache(th) ==
    /\ tpc[th] = "check"
    /\ LET text == targ[th] IN
       IF text = <<>> THEN
            /\ ReturnText(th, <<>>, "none")
            /\ UNCHANGED cache
       ELSE IF text \in DOMAIN cache THEN
            /\ tpc' = [tpc EXCEPT ![th] = "hit"]
            /\ UNCHANGED <<cache, targ, tval, tsvc, tret>>
       ELSE IF IsEnglishText(text) THEN
            /\ cache' = CachePut(cache, text, text)
            /\ ReturnText(th, text, "none")
       ELSE IF Normalized(text) \in DOMAIN common_translations THEN
            /\ cache' = CachePut(cache, text, common_translations[Normalized(text)])
            /\ ReturnText(th, common_translations[Normalized(text)], "none")
       ELSE
            /\ tpc' = [tpc EXCEPT ![th] = "ext"]
            /\ UNCHANGED <<cache, targ, tval, tsvc, tret>>

\* `return self.cache[text]`
ReturnCached(th) ==
    /\ tpc[th] = "hit"
    /\ ReturnText(th, cache[targ[th]], "none")
    /\ UNCHANGED cache

\* How the external service may behave in one _translate_text_sync call:
\* detect raises; detect answers another language than 'ru'; translate raises;
\* translate answers a text; translate answers ''.
ExtOutcomes ==
    {"detect_raised", "not_ru", "translate_raised", "translated", "translated_empty"}

SyncNone == <<"None">>

\* (mutant) the except branch of _translate_text_sync returns the text, not None
TranslateTextSyncResult_TextOnError(text, outcome, out) ==
    CASE outcome = "detect_raised" -> <<"str", text>>
      [] outcome = "translate_raised" -> <<"str", text>>
      [] outcome = "not_ru" -> <<"str", text>>
      [] outcome = "translated" -> <<"str", out>>
      [] outcome = "translated_empty" -> <<"str", <<>>>>

\* _translate_text_sync(text): None when detect or translate raises, the text
\* itself when the detected language is not 'ru', result.text otherwise.
TranslateTextSyncResult(text, outcome, out) ==
    CASE outcome = "detect_raised" -> SyncNone
      [] outcome = "translate_raised" -> SyncNone
      [] outcome = "not_ru" -> <<"str", text>>
      [] outcome = "translated" -> <<"str", out>>
      [] outcome = "translated_empty" -> <<"str", <<>>>>

\* `translated = self._translate_text_sync(text)`, `if translated:` and, when it
\* is None or '', `return text`
TranslateTextSync(th) ==
    /\ tpc[th] = "ext"
    /\ \E outcome \in ExtOutcomes :
       \E out \in (IF outcome = "translated" THEN ExtOutputs ELSE {<<>>}) :
         LET r == TranslateTextSyncResult(targ[th], outcome, out) IN
         IF r # SyncNone /\ r[2] # <<>>
         THEN /\ tval' = [tval EXCEPT ![th] = r[2]]
              /\ tpc' = [tpc EXCEPT ![th] = "store"]
              /\ tsvc' = [tsvc EXCEPT ![th] = outcome]
              /\ UNCHANGED <<targ, tret>>
         ELSE ReturnText(th, targ[th], outcome)
    /\ UNCHANGED cache

\* (mutant) the translation is returned without being stored in the cache
StoreTranslated_NoStore(th) ==
    /\ tpc[th] = "store"
    /\ ReturnText(th, tval[th], tsvc[th])
    /\ UNCHANGED cache

\* `self.cache[text] = translated; return translated`
StoreTranslated(th) ==
    /\ tpc[th] = "store"
    /\ cache' = CachePut(cache, targ[th], tval[th])
    /\ ReturnText(th, tval[th], tsvc[th])

rank_translations ==
    PairsToMap({
       \* 'новобранец': 'recruit'
       <<<<1085, 1086, 1074, 1086, 1073, 1088, 1072, 1085, 1077, 1094>>,
         <<114, 101, 99, 114, 117, 105, 116>>>>,
       \* 'рядовой': 'private'
       <<<<1088, 1103, 1076, 1086, 1074, 1086, 1081>>,
         <<112, 114, 105, 118, 97, 116, 101>>>>,
       \* 'рядовой первого класса': 'private first class'
       <<<<1088, 1103, 1076, 1086, 1074, 1086, 1081, 32, 1087, 1077, 1088, 1074, 1086, 1075, 1086, 32, 1082, 1083, 1072, 1089, 1089, 1072>>,
         <<112, 114, 105, 118, 97, 116, 101, 32, 102, 105, 114, 115, 116, 32, 99, 108, 97, 115, 115>>>>,
       \* 'младший капрал': 'lance corporal'
       <<<<1084, 1083, 1072, 1076, 1096, 1080, 1081, 32, 1082, 1072, 1087, 1088, 1072, 1083>>,
         <<108, 97, 110, 99, 101, 32, 99, 111, 114, 112, 111, 114, 97, 108>>>>,
       \* 'капрал': 'corporal'
       <<<<1082, 1072, 1087, 1088, 1072, 1083>>,
         <<99, 111, 114, 112, 111, 114, 97, 108>>>>,
       \* 'сержант': 'sergeant'
       <<<<1089, 1077, 1088, 1078, 1072, 1085, 1090>>,
         <<115, 101, 114, 103, 101, 97, 110, 116>>>>,
       \* 'штаб-сержант': 'staff sergeant'
       <<<<1096, 1090, 1072, 1073, 45, 1089, 1077, 1088, 1078, 1072, 1085, 1090>>,
         <<115, 116, 97, 102, 102, 32, 115, 101, 114, 103, 101, 97, 110, 116>>>>,
       \* 'старший сержант': 'sergeant first class'
       <<<<1089, 1090, 1072, 1088, 1096, 1080, 1081, 32, 1089, 1077, 1088, 1078, 1072, 1085, 1090>>,
         <<115, 101, 114, 103, 101, 97, 110, 116, 32, 102, 105, 114, 115, 116, 32, 99, 108, 97, 115, 115>>>>,
       \* 'мастер-сержант': 'master sergeant'
       <<<<1084, 1072, 1089, 1090, 1077, 1088, 45, 1089, 1077, 1088, 1078, 1072, 1085, 1090>>,
         <<109, 97, 115, 116, 101, 114, 32, 115, 101, 114, 103, 101, 97, 110, 116>>>>,
       \* 'уорэнт-офицер 1': 'warrant officer 1'
       <<<<1091, 1086, 1088, 1101, 1085, 1090, 45, 1086, 1092, 1080, 1094, 1077, 1088, 32, 49>>,
         <<119, 97, 114, 114, 97, 110, 116, 32, 111, 102, 102, 105, 99, 101, 114, 32, 49>>>>,
       \* 'уорэнт-офицер 2': 'warrant officer 2'
       <<<<1091, 1086, 1088, 1101, 1085, 1090, 45, 1086, 1092, 1080, 1094, 1077, 1088, 32, 50>>,
         <<119, 97, 114, 114, 97, 110, 116, 32, 111, 102, 102, 105, 99, 101, 114, 32, 50>>>>,
       \* 'уорэнт-офицер 3': 'warrant officer 3'
       <<<<1091, 1086, 1088, 1101, 1085, 1090, 45, 1086, 1092, 1080, 1094, 1077, 1088, 32, 51>>,
         <<119, 97, 114, 114, 97, 110, 116, 32, 111, 102, 102, 105, 99, 101, 114, 32, 51>>>>,
       \* 'уорэнт-офицер 4': 'warrant officer 4'
       <<<<1091, 1086, 1088, 1101, 1085, 1090, 45, 1086, 1092, 1080, 1094, 1077, 1088, 32, 52>>,
         <<119, 97, 114, 114, 97, 110, 116, 32, 111, 102, 102, 105, 99, 101, 114, 32, 52>>>>,
       \* 'уорэнт-офицер 5': 'warrant officer 5'
       <<<<1091, 1086, 1088, 1101, 1085, 1090, 45, 1086, 1092, 1080, 1094, 1077, 1088, 32, 53>>,
         <<119, 97, 114, 114, 97, 110, 116, 32, 111, 102, 102, 105, 99, 101, 114, 32, 53>>>>,
       \* 'второй лейтенант': 'second lieutenant'
       <<<<1074, 1090, 1086, 1088, 1086, 1081, 32, 1083, 1077, 1081, 1090, 1077, 1085, 1072, 1085, 1090>>,
         <<115, 101, 99, 111, 110, 100, 32, 108, 105, 101, 117, 116, 101, 110, 97, 110, 116>>>>,
       \* 'первый лейтенант': 'first lieutenant'
       <<<<1087, 1077, 1088, 1074, 1099, 1081, 32, 1083, 1077, 1081, 1090, 1077, 1085, 1072, 1085, 1090>>,
         <<102, 105, 114, 115, 116, 32, 108, 105, 101, 117, 116, 101, 110, 97, 110, 116>>>>,
       \* 'капитан': 'captain'
       <<<<1082, 1072, 1087, 1080, 1090, 1072, 1085>>,
         <<99, 97, 112, 116, 97, 105, 110>>>>,
       \* 'майор': 'major'
       <<<<1084, 1072, 1081, 1086, 1088>>,
         <<109, 97, 106, 111, 114>>>>,
       \* 'подполковник': 'lieutenant colonel'
       <<<<1087, 1086, 1076, 1087, 1086, 1083, 1082, 1086, 1074, 1085, 1080, 1082>>,
         <<108, 105, 101, 117, 116, 101, 110, 97, 110, 116, 32, 99, 111, 108, 111, 110, 101, 108>>>>,
       \* 'полковник': 'colonel'
       <<<<1087, 1086, 1083, 1082, 1086, 1074, 1085, 1080, 1082>>,
         <<99, 111, 108, 111, 110, 101, 108>>>>,
       \* 'бригадный генерал': 'brigadier general'
       <<<<1073, 1088, 1080, 1075, 1072, 1076, 1085, 1099, 1081, 32, 1075, 1077, 1085, 1077, 1088, 1072, 1083>>,
         <<98, 114, 105, 103, 97, 100, 105, 101, 114, 32, 103, 101, 110, 101, 114, 97, 108>>>>,
       \* 'генерал-майор': 'major general'
       <<<<1075, 1077, 1085, 1077, 1088, 1072, 1083, 45, 1084, 1072, 1081, 1086, 1088>>,
         <<109, 97, 106, 111, 114, 32, 103, 101, 110, 101, 114, 97, 108>>>>,
       \* 'генерал-лейтенант': 'lieutenant general'
       <<<<1075, 1077, 1085, 1077, 1088, 1072, 1083, 45, 1083, 1077, 1081, 1090, 1077, 1085, 1072, 1085, 1090>>,
         <<108, 105, 101, 117, 116, 101, 110, 97, 110, 116, 32, 103, 101, 110, 101, 114, 97, 108>>>>,
       \* 'генерал': 'general'
       <<<<1075, 1077, 1085, 1077, 1088, 1072, 1083>>,
         <<103, 101, 110, 101, 114, 97, 108>>>>,
       \* 'генералиссимус': 'generalissimo'
       <<<<1075, 1077, 1085, 1077, 1088, 1072, 1083, 1080, 1089, 1089, 1080, 1084, 1091, 1089>>,
         <<103, 101, 110, 101, 114, 97, 108, 105, 115, 115, 105, 109, 111>>>>,
       \* 'легенда': 'legend'
       <<<<1083, 1077, 1075, 1077, 1085, 1076, 1072>>,
         <<108, 101, 103, 101, 110, 100>>>>})

\* Rank names handed to translate_rank.
RankEmpty == <<>>                                                   \* ''
RankPolkovnik == <<1055, 1086, 1083, 1082, 1086, 1074, 1085, 1080, 1082>>    \* 'Полковник'
RankKapitanPadded == <<32, 1050, 1040, 1055, 1048, 1058, 1040, 1053, 32>>    \* ' КАПИТАН '
RankShtabSerzhant ==                                                \* 'штаб-сержант'
    <<1096, 1090, 1072, 1073, 45, 1089, 1077, 1088, 1078, 1072, 1085, 1090>>
RankWarrantLower ==                                                 \* 'warrant officer 5'
    <<119, 97, 114, 114, 97, 110, 116, 32, 111, 102, 102, 105, 99, 101, 114, 32, 53>>
RankMarshal == <<1084, 1072, 1088, 1096, 1072, 1083>>               \* 'маршал'
RankTexts ==
    {RankEmpty, RankPolkovnik, RankKapitanPadded, RankShtabSerzhant, RankWarrantLower,
     RankMarshal}

\* Non-empty texts the external translate call may answer a rank with:
\* 'marshal', 'field marshal'.
RankOutputs ==
    {<<109, 97, 114, 115, 104, 97, 108>>,
     <<102, 105, 101, 108, 100, 32, 109, 97, 114, 115, 104, 97, 108>>}

VARIABLES
    rret        \* per thread: the last completed translate_rank call (text, result, service behaviour)

rvars == <<rret>>

RInit == rret = [th \in Threads |-> NoCall]

\* all(ord(char) < 128 for char in rank_text)
IsAsciiText(text) == \A i \in 1..Len(text) : text[i] < 128

\* `translated.title() if translated else rank_text`, translated being what
\* _translate_text_sync returned
TitleIfTranslated(rank_text, translated) ==
    IF translated # SyncNone /\ translated[2] # <<>> THEN Title(translated[2])
    ELSE rank_text

\* translate_rank(rank_text), the external service behaving as outcome and out
\* say when it is reached
TranslateRank(rank_text, outcome, out) ==
    IF rank_text = <<>> THEN StrUnknownRank
    ELSE IF Normalized(rank_text) \in DOMAIN rank_translations
    THEN Title(rank_translations[Normalized(rank_text)])
    ELSE IF IsAsciiText(rank_text) THEN Title(rank_text)
    ELSE TitleIfTranslated(rank_text, TranslateTextSyncResult(rank_text, outcome, out))

\* whether translate_rank(rank_text) reaches the external service
RankNeedsService(rank_text) ==
    /\ rank_text # <<>>
    /\ Normalized(rank_text) \notin DOMAIN rank_translations
    /\ ~IsAsciiText(rank_text)

\* translate_rank(rank_text) is called and returns; it reads no shared state
TranslateRankCall(th, rank_text) ==
    \E outcome \in (IF RankNeedsService(rank_text) THEN ExtOutcomes ELSE {"none"}) :
    \E out \in (IF outcome = "translated" THEN RankOutputs ELSE {<<>>}) :
        rret' = [rret EXCEPT ![th] =
                    [text |-> rank_text,
                     result |-> TranslateRank(rank_text, outcome, out),
                     ext |-> outcome]]

\* Bookkeeping of the calls of one caller: the call before the last one, and the
\* cache as it was on entry.
HistFull(th) ==
    /\ tcache0' = IF tpc[th] = "idle" THEN [tcache0 EXCEPT ![th] = cache] ELSE tcache0
    /\ tprev' = IF tpc[th] = "idle" THEN [tprev EXCEPT ![th] = tret[th]] ELSE tprev

HistNone == UNCHANGED <<tcache0, tprev>>

TInit ==
    /\ cache = EmptyCache
    /\ tpc = [th \in Threads |-> "idle"]
    /\ targ = [th \in Threads |-> <<>>]
    /\ tval = [th \in Threads |-> <<>>]
    /\ tsvc = [th \in Threads |-> "none"]
    /\ tret = [th \in Threads |-> NoCall]
    /\ tprev = [th \in Threads |-> NoCall]
    /\ tcache0 = [th \in Threads |-> EmptyCache]

(***************************************************************************)
(* Properties of translate_text                                            *)
(***************************************************************************)

\* The external step did not yield a usable translation: detect or translate
\* raised, or translate answered ''.
FailedOutcomes == {"detect_raised", "translate_raised", "translated_empty"}
RaisedOutcomes == {"detect_raised", "translate_raised"}

\* The caller has completed two calls in a row with the same text.
TwoCallsSameText ==
    /\ tpc[1] = "idle"
    /\ tprev[1].ext # "nocall"
    /\ tret[1].ext # "nocall"
    /\ tprev[1].text = tret[1].text

\* C1 (as claimed): two consecutive calls translate_text(t) return the same
\* result, whatever the external service did in either of them.
C1_Idempotent ==
    TwoCallsSameText => tret[1].result = tprev[1].result

\* C1 (amended): two consecutive calls translate_text(t) return the same result
\* unless the external step of the first one failed (it raised or answered '').
C1_IdempotentUnlessFailed ==
    (TwoCallsSameText /\ tprev[1].ext \notin FailedOutcomes)
        => tret[1].result = tprev[1].result

\* C1 witness: 'привет' was translated by the service, then served from the cache.
C1_Witness ==
    /\ TwoCallsSameText
    /\ tret[1].text = TxtPrivet
    /\ tprev[1].ext = "translated"
    /\ tret[1].ext = "none"
    /\ tret[1].result = tprev[1].result

\* C2: when detect or translate raises, translate_text returns the original
\* text, the cache is exactly what it was when the call was entered (no entry
\* for the text), and the next call with the same text invokes the service again.
C2_FailureNotCached ==
    /\ (tpc[1] = "idle" /\ tret[1].ext \in RaisedOutcomes) =>
            /\ tret[1].result = tret[1].text
            /\ cache = tcache0[1]
            /\ tret[1].text \notin DOMAIN cache
    /\ (TwoCallsSameText /\ tprev[1].ext \in RaisedOutcomes) =>
            tret[1].ext \in ExtOutcomes

\* C2 witness: detect raised in one call on a text, and the next call on the
\* same text reached the service again and got a translation.
C2_Witness ==
    /\ TwoCallsSameText
    /\ tprev[1].ext = "detect_raised"
    /\ tprev[1].result = tprev[1].text
    /\ tret[1].ext = "translated"

\* The cache c is c0 with exactly the entry key -> value added.
CacheIsPlus(c, c0, key, value) ==
    /\ DOMAIN c = DOMAIN c0 \cup {key}
    /\ c[key] = value
    /\ \A k \in DOMAIN c0 \ {key} : c[k] = c0[k]

\* C4: translate_text short-circuits in a fixed order. '' returns ''; a cached
\* text returns its cached value; a text whose letters are all basic Latin
\* ('Hello', '42') is returned unchanged and cached as text -> text; a text whose
\* lower-cased trimmed form is in the common dictionary ('да', ' Да ' -> 'yes',
\* 'НЕТ' -> 'no') returns the dictionary value, cached under the raw text; the
\* external service is invoked in none of these cases, only for the other texts.
C4_ShortCircuitOrder ==
    (tpc[1] = "idle" /\ tret[1].ext # "nocall") =>
        LET c == tret[1]
            c0 == tcache0[1]
        IN /\ c.text = <<>> =>
                c.result = <<>> /\ c.ext = "none" /\ cache = c0
           /\ (c.text # <<>> /\ c.text \in DOMAIN c0) =>
                c.result = c0[c.text] /\ c.ext = "none" /\ cache = c0
           /\ (c.text \in {TxtHello, TxtNum} \ DOMAIN c0) =>
                c.result = c.text /\ c.ext = "none"
                    /\ CacheIsPlus(cache, c0, c.text, c.text)
           /\ (c.text \in {TxtDa, TxtDaPadded} \ DOMAIN c0) =>
                c.result = TxtYes /\ c.ext = "none"
                    /\ CacheIsPlus(cache, c0, c.text, TxtYes)
           /\ (c.text \in {TxtNet} \ DOMAIN c0) =>
                c.result = TxtNo /\ c.ext = "none"
                    /\ CacheIsPlus(cache, c0, c.text, TxtNo)
           /\ c.ext # "none" => c.text \in {TxtPrivet, TxtTank} \ DOMAIN c0

\* C4 witness: ' Да ' was resolved by the dictionary without the service, and a
\* cached 'Hello' is in the cache as a no-op entry.
C4_Witness ==
    /\ tpc[1] = "idle"
    /\ tret[1].text = TxtDaPadded
    /\ tret[1].result = TxtYes
    /\ tret[1].ext = "none"
    /\ TxtDaPadded \notin DOMAIN tcache0[1]
    /\ TxtHello \in DOMAIN cache
    /\ cache[TxtHello] = TxtHello
    /\ cache[TxtDaPadded] = TxtYes

\* Some call on t has completed and none is running.
RacersFinished(t) ==
    /\ \E th \in Threads : tret[th].ext # "nocall" /\ tret[th].text = t
    /\ \A th \in Threads : tpc[th] # "idle" => targ[th] # t

\* t is cached and no call that missed the cache on t is still running.
Converged(t) ==
    /\ t \in DOMAIN cache
    /\ \A th \in Threads : tpc[th] \in {"ext", "store"} => targ[th] # t

\* From here on the cache keeps its value for t and every call on t returns it.
StaysConverged(t) ==
    /\ Converged(t)'
    /\ cache'[t] = cache[t]
    /\ \A th \in Threads :
         (tpc[th] # "idle" /\ tpc'[th] = "idle" /\ targ[th] = t)
            => tret'[th].result = cache[t]

\* C3 (as claimed): whenever the calls racing on the uncached non-English text
\* 'привет' have finished, the cache holds a value for it, and from then on
\* that value stays and every later call returns it.
C3_RaceConverges ==
    [][RacersFinished(TxtPrivet) =>
            (Converged(TxtPrivet) /\ StaysConverged(TxtPrivet))]_tvars

\* C3 (amended): if one of the racing calls got a usable answer from the service
\* (a stored value), then once no call that missed the cache is running the
\* cache holds one value for the text, that value never changes again and every
\* later call returns it; a text whose racing calls all failed stays uncached.
C3_RaceConvergesOnceStored ==
    [][/\ Converged(TxtPrivet) => StaysConverged(TxtPrivet)
       /\ (RacersFinished(TxtPrivet) /\ ~Converged(TxtPrivet)) =>
            \A th \in Threads :
                tret[th].text = TxtPrivet => tret[th].ext \in FailedOutcomes
       /\ (RacersFinished(TxtPrivet) /\
            \E th \in Threads : /\ tret[th].text = TxtPrivet
                                /\ tret[th].ext \in {"not_ru", "translated"})
            => Converged(TxtPrivet)]_tvars

\* C3 witness: two threads raced on 'привет', each got its own translation from
\* the service, both have finished and the cache holds the one stored last.
C3_Witness ==
    /\ \A th \in Threads : tpc[th] = "idle"
    /\ tret[1].text = TxtPrivet /\ tret[1].ext = "translated"
    /\ tret[2].text = TxtPrivet /\ tret[2].ext = "translated"
    /\ tret[1].result # tret[2].result
    /\ Converged(TxtPrivet)
    /\ cache[TxtPrivet] \in {tret[1].result, tret[2].result}

(***************************************************************************)
(* RTanksPlayerScraper: the parsed page                                    *)
(*                                                                         *)
(* A page is the tree BeautifulSoup(html_content, 'html.parser') builds.   *)
(* Its body is a sequence of elements: tables, and img, font, div and      *)
(* other text-holding elements.  A table holds rows, a row holds cells, a  *)
(* cell holds its own text, at most one link, at most one image and the    *)
(* tables nested in it.  A string that stands between the elements of the  *)
(* body, outside any of them, has the body itself as its parent.           *)
(***************************************************************************)

StrUnknown == <<85, 110, 107, 110, 111, 119, 110>>    \* 'Unknown'
StrNA == <<78, 47, 65>>    \* 'N/A'
StrImgur == <<105, 109, 103, 117, 114, 46, 99, 111, 109>>    \* 'imgur.com'
KwPoOpytu == <<1087, 1086, 32, 1086, 1087, 1099, 1090, 1091>>    \* 'по опыту'
KwOpyt == <<1086, 1087, 1099, 1090>>    \* 'опыт'
KwUnichtozhil == <<1091, 1085, 1080, 1095, 1090, 1086, 1078, 1080, 1083>>    \* 'уничтожил'
KwKills == <<107, 105, 108, 108, 115>>    \* 'kills'
KwPodbit == <<1087, 1086, 1076, 1073, 1080, 1090>>    \* 'подбит'
KwDeaths == <<100, 101, 97, 116, 104, 115>>    \* 'deaths'
KwUP == <<1091, 47, 1087>>    \* 'у/п'
KwKD == <<107, 47, 100>>    \* 'k/d'
KwEffektivnost == <<1101, 1092, 1092, 1077, 1082, 1090, 1080, 1074, 1085, 1086, 1089, 1090, 1100>>    \* 'эффективность'
KwPremium == <<1087, 1088, 1077, 1084, 1080, 1091, 1084>>    \* 'премиум'
KwPremiumEn == <<112, 114, 101, 109, 105, 117, 109>>    \* 'premium'
KwZolot == <<1079, 1086, 1083, 1086, 1090>>    \* 'золот'
KwGold == <<103, 111, 108, 100>>    \* 'gold'
KwGoldolovov == <<1075, 1086, 1083, 1076, 1086, 1083, 1086, 1074, 1086, 1074>>    \* 'голдоловов'
KwPoKillam == <<1087, 1086, 32, 1082, 1080, 1083, 1083, 1072, 1084>>    \* 'по киллам'
KwPoEffektivnosti == <<1087, 1086, 32, 1101, 1092, 1092, 1077, 1082, 1090, 1080, 1074, 1085, 1086, 1089, 1090, 1080>>    \* 'по эффективности'
KwDa == <<1076, 1072>>    \* 'да'
KwYes == <<121, 101, 115>>    \* 'yes'
KwKristall == <<1082, 1088, 1080, 1089, 1090, 1072, 1083, 1083>>    \* 'кристалл'
KwGray == <<103, 114, 97, 121>>    \* 'gray'
ClsTextXp == <<116, 101, 120, 116, 95, 120, 112>>    \* 'text_xp'
KwEquipment == <<101, 113, 117, 105, 112, 109, 101, 110, 116>>    \* 'equipment'
KwLoadout == <<108, 111, 97, 100, 111, 117, 116>>    \* 'loadout'
CatExperience == <<101, 120, 112, 101, 114, 105, 101, 110, 99, 101>>    \* 'experience'
CatCrystals == <<99, 114, 121, 115, 116, 97, 108, 115>>    \* 'crystals'
CatKills == <<107, 105, 108, 108, 115>>    \* 'kills'
CatEfficiency == <<101, 102, 102, 105, 99, 105, 101, 110, 99, 121>>    \* 'efficiency'

rank_mappings ==
    PairsToMap({
       \* 'a3UCeT5.png': 'Warrant Officer 5'
       <<<<97, 51, 85, 67, 101, 84, 53, 46, 112, 110, 103>>,
         <<87, 97, 114, 114, 97, 110, 116, 32, 79, 102, 102, 105, 99, 101, 114, 32, 53>>>>,
       \* 'O6Tb9li.png': 'Colonel'
       <<<<79, 54, 84, 98, 57, 108, 105, 46, 112, 110, 103>>,
         <<67, 111, 108, 111, 110, 101, 108>>>>,
       \* 'rCN2gJm.png': 'Lieutenant Colonel'
       <<<<114, 67, 78, 50, 103, 74, 109, 46, 112, 110, 103>>,
         <<76, 105, 101, 117, 116, 101, 110, 97, 110, 116, 32, 67, 111, 108, 111, 110, 101, 108>>>>,
       \* 'R69LmLt.png': 'Major'
       <<<<82, 54, 57, 76, 109, 76, 116, 46, 112, 110, 103>>,
         <<77, 97, 106, 111, 114>>>>,
       \* 'Ljy2jDX.png': 'Captain'
       <<<<76, 106, 121, 50, 106, 68, 88, 46, 112, 110, 103>>,
         <<67, 97, 112, 116, 97, 105, 110>>>>,
       \* 'lTXxLVJ.png': 'First Lieutenant'
       <<<<108, 84, 88, 120, 76, 86, 74, 46, 112, 110, 103>>,
         <<70, 105, 114, 115, 116, 32, 76, 105, 101, 117, 116, 101, 110, 97, 110, 116>>>>,
       \* 'iTyjOt3.png': 'Second Lieutenant'
       <<<<105, 84, 121, 106, 79, 116, 51, 46, 112, 110, 103>>,
         <<83, 101, 99, 111, 110, 100, 32, 76, 105, 101, 117, 116, 101, 110, 97, 110, 116>>>>,
       \* 'BIr8vRX.png': 'Warrant Officer 4'
       <<<<66, 73, 114, 56, 118, 82, 88, 46, 112, 110, 103>>,
         <<87, 97, 114, 114, 97, 110, 116, 32, 79, 102, 102, 105, 99, 101, 114, 32, 52>>>>,
       \* 'sppjRis.png': 'Warrant Officer 3'
       <<<<115, 112, 112, 106, 82, 105, 115, 46, 112, 110, 103>>,
         <<87, 97, 114, 114, 97, 110, 116, 32, 79, 102, 102, 105, 99, 101, 114, 32, 51>>>>,
       \* 'LATOpxZ.png': 'Warrant Officer 2'
       <<<<76, 65, 84, 79, 112, 120, 90, 46, 112, 110, 103>>,
         <<87, 97, 114, 114, 97, 110, 116, 32, 79, 102, 102, 105, 99, 101, 114, 32, 50>>>>,
       \* 'ekbJYyf.png': 'Warrant Officer 1'
       <<<<101, 107, 98, 74, 89, 121, 102, 46, 112, 110, 103>>,
         <<87, 97, 114, 114, 97, 110, 116, 32, 79, 102, 102, 105, 99, 101, 114, 32, 49>>>>,
       \* 'GzJRzgz.png': 'Master Sergeant'
       <<<<71, 122, 74, 82, 122, 103, 122, 46, 112, 110, 103>>,
         <<77, 97, 115, 116, 101, 114, 32, 83, 101, 114, 103, 101, 97, 110, 116>>>>,
       \* 'pxzNyxi.png': 'Sergeant First Class'
       <<<<112, 120, 122, 78, 121, 120, 105, 46, 112, 110, 103>>,
         <<83, 101, 114, 103, 101, 97, 110, 116, 32, 70, 105, 114, 115, 116, 32, 67, 108, 97, 115, 115>>>>,
       \* 'UWup9qJ.png': 'Staff Sergeant'
       <<<<85, 87, 117, 112, 57, 113, 74, 46, 112, 110, 103>>,
         <<83, 116, 97, 102, 102, 32, 83, 101, 114, 103, 101, 97, 110, 116>>>>,
       \* 'dSE90bT.png': 'Sergeant'
       <<<<100, 83, 69, 57, 48, 98, 84, 46, 112, 110, 103>>,
         <<83, 101, 114, 103, 101, 97, 110, 116>>>>,
       \* 'paF1myt.png': 'Corporal'
       <<<<112, 97, 70, 49, 109, 121, 116, 46, 112, 110, 103>>,
         <<67, 111, 114, 112, 111, 114, 97, 108>>>>,
       \* 'wPZnaG0.png': 'Lance Corporal'
       <<<<119, 80, 90, 110, 97, 71, 48, 46, 112, 110, 103>>,
         <<76, 97, 110, 99, 101, 32, 67, 111, 114, 112, 111, 114, 97, 108>>>>,
       \* 'Or6Ajto.png': 'Private First Class'
       <<<<79, 114, 54, 65, 106, 116, 111, 46, 112, 110, 103>>,
         <<80, 114, 105, 118, 97, 116, 101, 32, 70, 105, 114, 115, 116, 32, 67, 108, 97, 115, 115>>>>,
       \* 'AYAs02w.png': 'Private'
       <<<<65, 89, 65, 115, 48, 50, 119, 46, 112, 110, 103>>,
         <<80, 114, 105, 118, 97, 116, 101>>>>,
       \* 'M4GBQIq.png': 'Recruit'
       <<<<77, 52, 71, 66, 81, 73, 113, 46, 112, 110, 103>>,
         <<82, 101, 99, 114, 117, 105, 116>>>>,
       \* 'Q2YgFQ1.png': 'Legend'
       <<<<81, 50, 89, 103, 70, 81, 49, 46, 112, 110, 103>>,
         <<76, 101, 103, 101, 110, 100>>>>,
       \* 'rO3Hs5f.png': 'Generalissimo'
       <<<<114, 79, 51, 72, 115, 53, 102, 46, 112, 110, 103>>,
         <<71, 101, 110, 101, 114, 97, 108, 105, 115, 115, 105, 109, 111>>>>,
       \* 'OQEHkm7.png': 'General'
       <<<<79, 81, 69, 72, 107, 109, 55, 46, 112, 110, 103>>,
         <<71, 101, 110, 101, 114, 97, 108>>>>,
       \* 'BNZpCPo.png': 'Lieutenant General'
       <<<<66, 78, 90, 112, 67, 80, 111, 46, 112, 110, 103>>,
         <<76, 105, 101, 117, 116, 101, 110, 97, 110, 116, 32, 71, 101, 110, 101, 114, 97, 108>>>>,
       \* 'eQXJOZE.png': 'Major General'
       <<<<101, 81, 88, 74, 79, 90, 69, 46, 112, 110, 103>>,
         <<77, 97, 106, 111, 114, 32, 71, 101, 110, 101, 114, 97, 108>>>>,
       \* 'Sluzy': 'Brigadier General'
       <<<<83, 108, 117, 122, 121>>,
         <<66, 114, 105, 103, 97, 100, 105, 101, 114, 32, 71, 101, 110, 101, 114, 97, 108>>>>})

\* Constructors of page elements.  An img carries its src attribute, and a cell
\* its image and its link, as a sequence of no or one element.
TextEl(tag, text) == [tag |-> tag, text |-> text, attr |-> <<>>]
DivEl(class, text) == [tag |-> "div", text |-> text, attr |-> class]
FontEl(style, text) == [tag |-> "font", text |-> text, attr |-> style]
ImgEl(src) == [tag |-> "img", text |-> <<>>, attr |-> src]
TableEl(rows) == [tag |-> "table", rows |-> rows]
RowEl(cells) == [cells |-> cells]
CellEl(text, img, link, inner) == [text |-> text, img |-> img, link |-> link, inner |-> inner]
TextCell(text) == CellEl(text, <<>>, <<>>, <<>>)
BareText(text) == [tag |-> "#text", text |-> text, attr |-> <<>>]
Page(body) == [html |-> TRUE, body |-> body]
EmptyPage == [html |-> FALSE, body |-> <<>>]

\* Part(lo) \o ... \o Part(hi): what a loop over lo..hi collects, each pass
\* adding Part(i) at the end
RECURSIVE ConcatRange(_, _, _)
ConcatRange(Part(_), lo, hi) ==
    IF lo > hi THEN <<>>
    ELSE IF lo = hi THEN Part(lo)
    ELSE ConcatRange(Part, lo, (lo + hi) \div 2)
            \o ConcatRange(Part, (lo + hi) \div 2 + 1, hi)

\* The elements and text nodes below a sequence of body elements, of rows or of
\* cells, in document order, as the tree is walked by find, find_all,
\* find_next and get_text.  An item is [k |-> kind, v |-> element or text]; the
\* text of an element follows the element, and a string of the body itself is
\* of kind "bodytext".
RECURSIVE ItemsOfNodes(_), ItemsOfRows(_), ItemsOfCells(_)
ItemsOfNodes(nodes) ==
    ConcatRange(LAMBDA i :
        IF nodes[i].tag = "table"
        THEN <<[k |-> "table", v |-> nodes[i]]>> \o ItemsOfRows(nodes[i].rows)
        ELSE IF nodes[i].tag = "#text"
        THEN <<[k |-> "bodytext", v |-> nodes[i].text]>>
        ELSE <<[k |-> nodes[i].tag, v |-> nodes[i]]>>
                \o (IF nodes[i].text # <<>>
                    THEN <<[k |-> "text", v |-> nodes[i].text]>> ELSE <<>>),
        1, Len(nodes))
ItemsOfRows(rows) ==
    ConcatRange(LAMBDA i :
        <<[k |-> "tr", v |-> rows[i]]>> \o ItemsOfCells(rows[i].cells),
        1, Len(rows))
ItemsOfCells(cells) ==
    ConcatRange(LAMBDA i :
        <<[k |-> "td", v |-> cells[i]]>>
            \o (IF cells[i].text # <<>>
                THEN <<[k |-> "text", v |-> cells[i].text]>> ELSE <<>>)
            \o (IF cells[i].img # <<>>
                THEN <<[k |-> "img", v |-> cells[i].img[1]]>> ELSE <<>>)
            \o (IF cells[i].link # <<>>
                THEN <<[k |-> "a", v |-> cells[i].link[1]],
                       [k |-> "text", v |-> cells[i].link[1]]>>
                ELSE <<>>)
            \o ItemsOfNodes(cells[i].inner),
        1, Len(cells))

\* the elements of one kind among items, in document order
OfKind(items, kind) ==
    LET sel == SelectSeq(items, LAMBDA it : it.k = kind)
    IN [i \in 1..Len(sel) |-> sel[i].v]

\* get_text(strip=True): the stripped non-empty strings, joined without separator
JoinStripped(texts) == ConcatRange(LAMBDA i : Strip(texts[i]), 1, Len(texts))
GetText(items) == JoinStripped(OfKind(items, "text"))

\* soup.find_all('table'), table.find_all('tr'), row.find_all('td'): every
\* descendant of that tag, nested tables included
FindAllTable(page) == OfKind(ItemsOfNodes(page.body), "table")
FindAllTr(table) == OfKind(ItemsOfRows(table.rows), "tr")
FindAllTd(row) == OfKind(ItemsOfCells(row.cells), "td")

\* cell.get_text(strip=True), cell.find('a'), cell.find('img'): the result is a
\* sequence of no or one element
CellText(c) == GetText(ItemsOfCells(<<c>>))
CellFindA(c) == Prefix(OfKind(ItemsOfCells(<<c>>), "a"), 1)
CellFindImg(c) == Prefix(OfKind(ItemsOfCells(<<c>>), "img"), 1)

\* (mutant) the whole reference is looked up, not its last segment
ExtractRankFromImage_WholeReference(img_src) ==
    IF Contains(StrImgur, img_src)
    THEN IF img_src \in DOMAIN rank_mappings
         THEN rank_mappings[img_src]
         ELSE StrUnknownRank
    ELSE StrUnknownRank

\* _extract_rank_from_image(img_src)
ExtractRankFromImage(img_src) ==
    IF Contains(StrImgur, img_src)
    THEN LET filename == LastSegment(img_src, 47)
         IN IF filename \in DOMAIN rank_mappings
            THEN rank_mappings[filename]
            ELSE StrUnknownRank
    ELSE StrUnknownRank

\* re.search(r'(\d{1,3}(?:\s\d{3})*)', text): the matched group, as a sequence
\* of no or one string.  The match starts at the first digit, takes up to three
\* digits, then every following run of one white-space character and exactly
\* three digits.
RECURSIVE GroupsEnd(_, _)
GroupsEnd(text, pos) ==
    IF /\ pos + 3 <= Len(text)
       /\ IsSpace(text[pos])
       /\ \A j \in 1..3 : IsDigit(text[pos + j])
    THEN GroupsEnd(text, pos + 4)
    ELSE pos
FirstDigit(text) ==
    CHOOSE i \in 1..Len(text) :
        IsDigit(text[i]) /\ \A j \in 1..(i - 1) : ~IsDigit(text[j])
LeadDigits(text, start) ==
    CHOOSE n \in 1..3 :
        /\ \A j \in 0..(n - 1) : start + j <= Len(text) /\ IsDigit(text[start + j])
        /\ (n = 3 \/ start + n > Len(text) \/ ~IsDigit(text[start + n]))
RegexNumberFrom(text, start) ==
    <<SubSeq(text, start, GroupsEnd(text, start + LeadDigits(text, start)) - 1)>>
RegexNumber(text) ==
    IF \A i \in 1..Len(text) : ~IsDigit(text[i]) THEN <<>>
    ELSE RegexNumberFrom(text, FirstDigit(text))

\* int(exp_match.group(1).replace(' ', ''))
MatchToInt(group) == PyInt(RemoveChar(group, 32))

\* re.sub(r'[^\d]', '', value)
KeepDigits(value) == SelectSeq(value, IsDigit)

\* int(re.sub(r'[^\d]', '', value) or 0)
DigitsOrZero(value) ==
    IF KeepDigits(value) = <<>> THEN 0 ELSE DigitsValue(KeepDigits(value))

\* A float is <<"float", negative, num, scale>>, the number num / 10^scale with
\* no trailing zero in its fraction; float('inf') and float('nan') are
\* <<"float", negative, "inf">> and <<"float", "nan">>.
PyFloatVal(neg, num, scale) == <<"float", neg /\ num # 0, num, scale>>
FloatZero == PyFloatVal(FALSE, 0, 0)

RECURSIVE DropTrailingZeros(_)
DropTrailingZeros(s) ==
    IF s # <<>> /\ s[Len(s)] = 48 THEN DropTrailingZeros(SubSeq(s, 1, Len(s) - 1))
    ELSE s

\* float(s): white space is stripped at both ends, then an optional sign and
\* either inf, infinity or nan in any case, or digits with at most one decimal
\* point and at least one digit; anything else raises ValueError.  (Exponents
\* and underscores are not among the modelled inputs.)
Dots(body) == {i \in 1..Len(body) : body[i] = 46}
PyFloatParts(neg, whole, frac) == PyFloatVal(neg, DigitsValue(whole \o frac), Len(frac))
PyFloatDigits(neg, body, dot) ==
    PyFloatParts(neg, SubSeq(body, 1, dot - 1),
                 DropTrailingZeros(SubSeq(body, dot + 1, Len(body))))
PyFloatOf(neg, body) ==
    IF Lower(body) \in {<<105, 110, 102>>, <<105, 110, 102, 105, 110, 105, 116, 121>>}
    THEN <<"float", neg, "inf">>
    ELSE IF Lower(body) = <<110, 97, 110>> THEN <<"float", "nan">>
    ELSE IF /\ Cardinality(Dots(body)) <= 1
            /\ Len(body) > Cardinality(Dots(body))
            /\ \A i \in 1..Len(body) : IsDigit(body[i]) \/ body[i] = 46
    THEN PyFloatDigits(neg, body, IF Dots(body) = {} THEN Len(body) + 1
                                  ELSE CHOOSE i \in Dots(body) : TRUE)
    ELSE ValueError
PyFloatStripped(t) ==
    IF t # <<>> /\ t[1] \in {43, 45} THEN PyFloatOf(t[1] = 45, Tail(t))
    ELSE PyFloatOf(FALSE, t)
PyFloat(s) == PyFloatStripped(Strip(s))

\* player_data as get_player_stats first builds it
DefaultPlayerData(nickname) ==
    [nickname |-> nickname, rank |-> StrUnknown, experience |-> 0, kills |-> 0,
     deaths |-> 0, kd_ratio |-> FloatZero, premium |-> FALSE, goldboxes |-> 0,
     crystals_rank |-> StrNA, efficiency_rank |-> StrNA, experience_rank |-> StrNA,
     kills_rank |-> StrNA, equipment |-> <<>>]

\* every (table, row) pair of `for table in soup.find_all('table'): for row in
\* table.find_all('tr')`, in the order the loops visit them
RowVisits(page) ==
    LET tables == FindAllTable(page)
    IN ConcatRange(LAMBDA i : FindAllTr(tables[i]), 1, Len(tables))

\* the first element of a sequence that satisfies Test, as a sequence of no or
\* one element
FirstThat(seq, Test(_)) == Prefix(SelectSeq(seq, Test), 1)

\* rank from the first imgur image, overridden by the first gray font element
\* whose text is longer than 2 and shorter than 30
RankFromImage(page) ==
    LET img == FirstThat(OfKind(ItemsOfNodes(page.body), "img"),
                         LAMBDA e : e.attr # <<>> /\ Contains(StrImgur, e.attr[1]))
    IN IF img # <<>> THEN ExtractRankFromImage(img[1].attr[1]) ELSE StrUnknown
RankFromText(page) ==
    LET gray_fonts == SelectSeq(OfKind(ItemsOfNodes(page.body), "font"),
                                LAMBDA e : e.attr # <<>> /\ Contains(KwGray, Lower(e.attr)))
        fit == FirstThat(gray_fonts,
                         LAMBDA e : Strip(e.text) # <<>> /\ 2 < Len(Strip(e.text))
                                        /\ Len(Strip(e.text)) < 30)
    IN IF fit # <<>> THEN <<Strip(fit[1].text)>> ELSE <<>>
\* (mutant) the image path wins when it produced a rank
ExtractRank_ImageFirst(page) ==
    IF RankFromImage(page) # StrUnknown THEN RankFromImage(page)
    ELSE IF RankFromText(page) # <<>> THEN RankFromText(page)[1]
    ELSE StrUnknown

ExtractRank(page) ==
    IF RankFromText(page) # <<>> THEN RankFromText(page)[1] ELSE RankFromImage(page)

\* Method 1: the XP progress bar.  <<>> when it yields nothing, else a sequence
\* holding int(...) of the matched number, which may be a raised ValueError.
NumberOfMatch(exp_match) ==
    IF exp_match = <<>> THEN <<>> ELSE <<MatchToInt(exp_match[1])>>
ExperienceOfXpElement(xp_element) ==
    IF xp_element = <<>> THEN <<>>
    ELSE NumberOfMatch(RegexNumber(Strip(xp_element[1].text)))
ExperienceFromXpBar(page) ==
    ExperienceOfXpElement(FirstThat(OfKind(ItemsOfNodes(page.body), "div"),
                                    LAMBDA e : e.attr = ClsTextXp))

\* a row of the ratings table that Method 2 takes the experience from
IsExperienceCells(cells) ==
    /\ Len(cells) >= 3
    /\ \/ Contains(KwPoOpytu, Lower(CellText(cells[1])))
       \/ Contains(KwOpyt, Lower(CellText(cells[1])))
    /\ RegexNumber(CellText(cells[3])) # <<>>
IsExperienceRow(row) == IsExperienceCells(FindAllTd(row))

\* the experience Method 2 takes from the rows it stops at: those of a sequence
\* of no or one row
ExperienceOfRow(hit) ==
    IF hit = <<>> THEN <<>>
    ELSE NumberOfMatch(RegexNumber(CellText(FindAllTd(hit[1])[3])))

\* the last element of a sequence that satisfies Test, as a sequence of no or
\* one element
LastThat(seq, Test(_)) ==
    IF SelectSeq(seq, Test) = <<>> THEN <<>>
    ELSE <<SelectSeq(seq, Test)[Len(SelectSeq(seq, Test))]>>

\* (mutant) Method 2 without its two `break`s: the last matching row wins
ExperienceFromTable_LastRow(page) ==
    ExperienceOfRow(LastThat(RowVisits(page), IsExperienceRow))

\* Method 2: the first row, in visiting order, with at least three cells, an
\* experience keyword in the first and a number in the third
ExperienceFromTable(page) ==
    ExperienceOfRow(FirstThat(RowVisits(page), IsExperienceRow))

\* `exp_found`: Method 2 runs only if Method 1 set nothing
ExtractExperience(page) ==
    IF ExperienceFromXpBar(page) # <<>> THEN ExperienceFromXpBar(page)
    ELSE ExperienceFromTable(page)

\* (mutant) a K/D value that does not parse resets kd_ratio to 0.0
StatKeyValue_ResetOnFailure(d, key, value) ==
    IF Contains(KwUnichtozhil, key) \/ Contains(KwKills, key)
    THEN [d EXCEPT !.kills = DigitsOrZero(value)]
    ELSE IF Contains(KwPodbit, key) \/ Contains(KwDeaths, key)
    THEN [d EXCEPT !.deaths = DigitsOrZero(value)]
    ELSE IF Contains(KwUP, key) \/ Contains(KwKD, key) \/ Contains(KwEffektivnost, key)
    THEN IF PyFloat(ReplaceChar(value, 44, 46)) = ValueError
         THEN [d EXCEPT !.kd_ratio = FloatZero]
         ELSE [d EXCEPT !.kd_ratio = PyFloat(ReplaceChar(value, 44, 46))]
    ELSE IF Contains(KwPremium, key) \/ Contains(KwPremiumEn, key)
    THEN [d EXCEPT !.premium = Contains(KwDa, Lower(value)) \/ Contains(KwYes, Lower(value))]
    ELSE IF Contains(KwZolot, key) \/ Contains(KwGold, key)
    THEN [d EXCEPT !.goldboxes = DigitsOrZero(value)]
    ELSE d

\* one row of the kills / deaths / K/D / premium / gold boxes pass
StatKeyValue(d, key, value) ==
    IF Contains(KwUnichtozhil, key) \/ Contains(KwKills, key)
    THEN [d EXCEPT !.kills = DigitsOrZero(value)]
    ELSE IF Contains(KwPodbit, key) \/ Contains(KwDeaths, key)
    THEN [d EXCEPT !.deaths = DigitsOrZero(value)]
    ELSE IF Contains(KwUP, key) \/ Contains(KwKD, key) \/ Contains(KwEffektivnost, key)
    THEN IF PyFloat(ReplaceChar(value, 44, 46)) = ValueError THEN d
         ELSE [d EXCEPT !.kd_ratio = PyFloat(ReplaceChar(value, 44, 46))]
    ELSE IF Contains(KwPremium, key) \/ Contains(KwPremiumEn, key)
    THEN [d EXCEPT !.premium = Contains(KwDa, Lower(value)) \/ Contains(KwYes, Lower(value))]
    ELSE IF Contains(KwZolot, key) \/ Contains(KwGold, key)
    THEN [d EXCEPT !.goldboxes = DigitsOrZero(value)]
    ELSE d
StatCells(d, cells) ==
    IF Len(cells) < 2 THEN d
    ELSE StatKeyValue(d, Lower(CellText(cells[1])), CellText(cells[2]))
StatRow(d, row) == StatCells(d, FindAllTd(row))

\* (mutant) the position is stored as rendered, a zero included
PositionPlace_KeepZero(rank) == rank

\* one row of the ranking positions pass
PositionPlace(rank) == IF rank # <<48>> THEN rank ELSE StrNA
PositionCategory(d, category, place) ==
    IF Contains(KwPoOpytu, category)
    THEN [d EXCEPT !.experience_rank = place]
    ELSE IF Contains(KwGoldolovov, category) \/ Contains(KwZolot, category)
    THEN d
    ELSE IF Contains(KwPoKillam, category)
    THEN [d EXCEPT !.kills_rank = place]
    ELSE IF Contains(KwPoEffektivnosti, category)
    THEN [d EXCEPT !.efficiency_rank = place]
    ELSE d
PositionCells(d, cells) ==
    IF Len(cells) < 3 THEN d
    ELSE PositionCategory(d, Lower(CellText(cells[1])),
                          PositionPlace(RemoveChar(CellText(cells[2]), 35)))
PositionRow(d, row) == PositionCells(d, FindAllTd(row))

\* a loop over rows that updates player_data row by row
RECURSIVE ForEachRow(_, _, _)
ForEachRow(Step(_, _), d, rows) ==
    IF rows = <<>> THEN d ELSE ForEachRow(Step, Step(d, Head(rows)), Tail(rows))

\* equipment: the texts of the div elements whose class matches
\* equipment|loadout, each followed by a space, stripped at the end
ExtractEquipment(page) ==
    LET sections == SelectSeq(OfKind(ItemsOfNodes(page.body), "div"),
                              LAMBDA e : Contains(KwEquipment, e.attr)
                                            \/ Contains(KwLoadout, e.attr))
    IN Strip(ConcatRange(LAMBDA i : Strip(sections[i].text) \o <<32>>,
                         1, Len(sections)))

\* The body of get_player_stats once the page is fetched: <<"dict", player_data>>
\* or the exception raised on the way.
PlayerData(page, nickname, experience) ==
    IF experience # <<>> /\ experience[1] = ValueError THEN ValueError
    ELSE <<"dict",
           [ForEachRow(PositionRow,
                       ForEachRow(StatRow,
                                  [DefaultPlayerData(nickname) EXCEPT
                                        !.rank = ExtractRank(page),
                                        !.experience = IF experience = <<>> THEN 0
                                                       ELSE experience[1][2]],
                                  RowVisits(page)),
                       RowVisits(page))
                EXCEPT !.equipment = ExtractEquipment(page)]>>
ParsePlayerStats(page, nickname) == PlayerData(page, nickname, ExtractExperience(page))

\* `return leaderboard_data[:100]`
LeaderboardCap == 100

\* The per-row logic of get_leaderboard, the same in both its loops: a sequence
\* of no or one entry.
EntryOfRow(row) ==
    LET cells == FindAllTd(row) IN
    IF Len(cells) < 3 THEN <<>>
    ELSE LET player_link == CellFindA(cells[2])
             rank_img == CellFindImg(cells[2])
             value_text == CellText(cells[3])
             value == PyInt(RemoveChar(RemoveChar(value_text, 32), 44))
         IN IF player_link = <<>> THEN <<>>
            ELSE <<[position |-> CellText(cells[1]),
                    nickname |-> Strip(player_link[1]),
                    rank |-> IF rank_img # <<>> /\ rank_img[1].attr # <<>>
                             THEN ExtractRankFromImage(rank_img[1].attr[1])
                             ELSE StrUnknown,
                    value |-> IF value = ValueError THEN PyStr(value_text) ELSE value]>>

\* the entries of a sequence of rows
EntriesOfRows(rows) == ConcatRange(LAMBDA i : EntryOfRow(rows[i]), 1, Len(rows))

\* the main scan: every row of every table of the page
ScanAllTables(page) == EntriesOfRows(RowVisits(page))

\* soup.find(text=re.compile(r'кристалл')): the place, among the items of the
\* page, of the first string holding the label; 0 when there is none
CrystalSection(page) ==
    LET items == ItemsOfNodes(page.body)
        at == {i \in 1..Len(items) :
                    /\ items[i].k \in {"text", "bodytext"}
                    /\ Contains(KwKristall, items[i].v)}
    IN IF at = {} THEN 0 ELSE CHOOSE i \in at : \A j \in at : i <= j

\* crystal_section.find_parent(): the place of the element that holds the
\* string, which is the item before it; 0, the start of the document, when
\* the string is held by the body itself
CrystalParent(page) ==
    IF ItemsOfNodes(page.body)[CrystalSection(page)].k = "bodytext" THEN 0
    ELSE CrystalSection(page) - 1

\* crystal_section.find_parent().find_next('table'): the first table that starts
\* after the start of the parent, as a sequence of no or one table
CrystalTable(page) ==
    LET items == ItemsOfNodes(page.body)
    IN IF CrystalSection(page) = 0 THEN <<>>
       ELSE Prefix(OfKind(SubSeq(items, CrystalParent(page) + 1, Len(items)),
                          "table"), 1)

\* leaderboard_data before the final slice: the main scan, replaced by the scan
\* of the crystals table when the category is 'crystals' and that table is found
LeaderboardData(page, category) ==
    IF category = CatCrystals /\ CrystalTable(page) # <<>>
    THEN EntriesOfRows(FindAllTr(CrystalTable(page)[1]))
    ELSE ScanAllTables(page)

\* leaderboard_data[:100]
TopEntries(entries) == Prefix(entries, LeaderboardCap)

\* The body of get_leaderboard once the page is fetched.
ParseLeaderboard(page, category) ==
    <<"list", TopEntries(LeaderboardData(page, category))>>

(***************************************************************************)
(* RTanksPlayerScraper: session, _fetch_page and the two lookups           *)
(*                                                                         *)
(* The lookups are coroutines on one event loop: a task runs until it       *)
(* awaits the network (session.get, response.text()), so what lies between  *)
(* two awaits is one step.                                                  *)
(***************************************************************************)

\* Coroutines that may be in a lookup at the same time.
NTasks == 2
Tasks == 1..NTasks

\* Sessions the scraper may create in one run.
MaxSessions == 3

\* HTTP statuses the site answers with.
Statuses == {200, 404, 500}

VARIABLES
    session,    \* self.session: 0 for None, else the number of the ClientSession
    sclosed,    \* the ClientSessions whose .closed is True
    nsess,      \* how many ClientSessions were created so far
    fpc,        \* per task: "idle", "get" (awaiting session.get), "text" (awaiting response.text())
    fkind,      \* per task: "stats" (get_player_stats) or "board" (get_leaderboard)
    farg,       \* per task: the nickname or the category
    fsess,      \* per task: the session its running _fetch_page got from _get_session
    fgets,      \* per task: GET requests issued by its running or last _fetch_page
    fnet,       \* per task: how the network behaved for its running or last _fetch_page
    fdoc,       \* per task: the page the site served, as a sequence of no or one page
    fpage,      \* per task: what its last _fetch_page returned
    furl,       \* per task: the url its running or last _fetch_page was called with
    fret        \* per task: what its last lookup returned

svars == <<session, sclosed, nsess, fpc, fkind, farg, fsess, fgets, fnet, fdoc, fpage, furl, fret>>

vars == <<tvars, svars, rvars>>

Running == <<"running">>
NetNone == [get |-> "none", status |-> 0, body |-> "none"]

SInit ==
    /\ session = 0
    /\ sclosed = {}
    /\ nsess = 0
    /\ fpc = [t \in Tasks |-> "idle"]
    /\ fkind = [t \in Tasks |-> "none"]
    /\ farg = [t \in Tasks |-> <<>>]
    /\ fsess = [t \in Tasks |-> 0]
    /\ fgets = [t \in Tasks |-> 0]
    /\ fnet = [t \in Tasks |-> NetNone]
    /\ fdoc = [t \in Tasks |-> <<>>]
    /\ fpage = [t \in Tasks |-> PyNone]
    /\ furl = [t \in Tasks |-> <<>>]
    /\ fret = [t \in Tasks |-> PyNone]

\* (mutant) _get_session creates a session on every call
NeedsNewSession_Always == TRUE

\* `if self.session is None or self.session.closed`
NeedsNewSession == session = 0 \/ session \in sclosed

\* (mutant) every status below 500 is taken for a page
StatusOk_Below500(status) == status < 500

\* `if response.status == 200`
StatusOk(status) == status = 200

\* `except Exception as e: ... return None` of _fetch_page
FetchPageExcept(exc) == PyNone

\* (mutant) the lookups without their `except Exception`
LookupExcept_Propagate(v) == v

\* `except Exception as e: ... return None` of get_player_stats and
\* get_leaderboard: v is what the try block returned or raised
LookupExcept(v) == IF v[1] = "raise" THEN PyNone ELSE v

\* What a lookup returns, given what _fetch_page returned to it.
LookupResult(kind, arg, html_content) ==
    LookupExcept(
        IF html_content[1] = "raise" THEN html_content
        ELSE IF html_content[1] = "None" THEN PyNone
        ELSE IF ~html_content[2].html THEN PyNone              \* `if not html_content`
        ELSE IF kind = "stats" THEN ParsePlayerStats(html_content[2], arg)
        ELSE ParseLeaderboard(html_content[2], arg))

\* self.base_url = "https://ratings.ranked-rtanks.online"
base_url == <<104, 116, 116, 112, 115, 58, 47, 47, 114, 97, 116, 105, 110, 103, 115, 46, 114, 97, 110, 107, 101, 100, 45, 114, 116, 97, 110, 107, 115, 46, 111, 110, 108, 105, 110, 101>>

\* player_url = f"{self.base_url}/user/{nickname}"
PlayerUrl(nickname) == base_url \o <<47, 117, 115, 101, 114, 47>> \o nickname

\* (mutant) the categories after the first two get a url of their own
LeaderboardUrl_PerCategory(category) ==
    IF category = CatExperience THEN base_url
    ELSE IF category = CatCrystals THEN base_url
    ELSE base_url \o <<47>> \o category

\* `if category == 'experience': url = self.base_url`, and the same in the
\* `elif category == 'crystals'` and `else` branches
LeaderboardUrl(category) ==
    IF category = CatExperience THEN base_url
    ELSE IF category = CatCrystals THEN base_url
    ELSE base_url

\* The url a lookup hands to _fetch_page.
LookupUrl(kind, arg) == IF kind = "stats" THEN PlayerUrl(arg) ELSE LeaderboardUrl(arg)

\* get_player_stats(arg) or get_leaderboard(arg) is called: it runs through
\* _fetch_page and _get_session up to `session.get(url)`
BeginLookup(task, kind, arg) ==
    /\ fpc[task] = "idle"
    /\ NeedsNewSession => nsess < MaxSessions
    /\ session' = IF NeedsNewSession THEN nsess + 1 ELSE session
    /\ nsess' = IF NeedsNewSession THEN nsess + 1 ELSE nsess
    /\ fsess' = [fsess EXCEPT ![task] = session']
    /\ fgets' = [fgets EXCEPT ![task] = 1]
    /\ fpc' = [fpc EXCEPT ![task] = "get"]
    /\ fkind' = [fkind EXCEPT ![task] = kind]
    /\ farg' = [farg EXCEPT ![task] = arg]
    /\ fnet' = [fnet EXCEPT ![task] = NetNone]
    /\ fdoc' = [fdoc EXCEPT ![task] = <<>>]
    /\ fpage' = [fpage EXCEPT ![task] = Running]
    /\ furl' = [furl EXCEPT ![task] = LookupUrl(kind, arg)]
    /\ fret' = [fret EXCEPT ![task] = Running]
    /\ UNCHANGED sclosed

\* _fetch_page returns html_content to the lookup, which runs to its return
FetchReturns(task, html_content, net, doc) ==
    /\ fpc' = [fpc EXCEPT ![task] = "idle"]
    /\ fpage' = [fpage EXCEPT ![task] = html_content]
    /\ fret' = [fret EXCEPT ![task] = LookupResult(fkind[task], farg[task], html_content)]
    /\ fnet' = [fnet EXCEPT ![task] = net]
    /\ fdoc' = [fdoc EXCEPT ![task] = doc]
    /\ fsess' = [fsess EXCEPT ![task] = 0]
    /\ UNCHANGED <<session, sclosed, nsess, fkind, farg, fgets, furl>>

\* the response arrives: `if response.status == 200` ... `else: return None`
GetResponds(task, status) ==
    /\ fpc[task] = "get"
    /\ IF StatusOk(status)
       THEN /\ fpc' = [fpc EXCEPT ![task] = "text"]
            /\ fnet' = [fnet EXCEPT ![task] =
                            [get |-> "responded", status |-> status, body |-> "none"]]
            /\ UNCHANGED <<session, sclosed, nsess, fkind, farg, fsess, fgets, fdoc,
                           fpage, furl, fret>>
       ELSE FetchReturns(task, PyNone,
                         [get |-> "responded", status |-> status, body |-> "none"], <<>>)

\* session.get raises (connection error, timeout, closed session)
GetRaises(task) ==
    /\ fpc[task] = "get"
    /\ FetchReturns(task, FetchPageExcept(<<"raise", "ClientError">>),
                    [get |-> "raised", status |-> 0, body |-> "none"], <<>>)

\* `return await response.text()`
TextRead(task, page) ==
    /\ fpc[task] = "text"
    /\ FetchReturns(task, PyStr(page), [fnet[task] EXCEPT !.body = "ok"], <<page>>)

\* response.text() raises
TextRaises(task) ==
    /\ fpc[task] = "text"
    /\ FetchReturns(task, FetchPageExcept(<<"raise", "ClientError">>),
                    [fnet[task] EXCEPT !.body = "raised"], <<>>)

\* close(): `if self.session and not self.session.closed: await
\* self.session.close()`; the session reports closed as soon as close() is called
Close ==
    /\ sclosed' = IF session # 0 /\ session \notin sclosed
                  THEN sclosed \cup {session} ELSE sclosed
    /\ UNCHANGED <<session, nsess, fpc, fkind, farg, fsess, fgets, fnet, fdoc, fpage, furl,
                   fret>>

(***************************************************************************)
(* The pages the site serves                                               *)
(***************************************************************************)

\* the decimal digits of a natural number
RECURSIVE IntToText(_)
IntToText(n) ==
    IF n < 10 THEN <<48 + n>> ELSE IntToText(n \div 10) \o <<48 + (n % 10)>>

\* Numerators of the XP bar: strings of at most MaxNumLen characters over '1',
\* '0' and ' ' that are a number, written without separators or with its
\* thousands separated by single spaces.
MaxNumLen == 5
NumChars == {49, 48, 32}
WellFormedNumerator(s) ==
    LET spaces == {i \in 1..Len(s) : s[i] = 32}
    IN /\ s # <<>>
       /\ IsDigit(s[1])
       /\ (Len(s) = 1 \/ s[1] # 48)
       /\ \A i \in spaces :
            /\ (i >= 2 /\ i <= 4) \/ (i - 4) \in spaces
            /\ i + 3 <= Len(s)
            /\ \A j \in 1..3 : IsDigit(s[i + j])
            /\ (i + 3 = Len(s) \/ s[i + 4] = 32)
Numerators ==
    {s \in UNION {[1..n -> NumChars] : n \in 1..MaxNumLen} : WellFormedNumerator(s)}

TxtTotal == <<51, 32, 55, 48, 48>>                     \* '3 700'
TxtNbspNumerator == <<50, 160, 49, 48, 54>>            \* '2\xa0106'
TxtNbspTotal == <<51, 160, 55, 48, 48>>                \* '3\xa0700'
TxtNoNumber == <<8212>>                                \* '—'
TxtXpSample == <<50, 32, 49, 48, 54, 32, 47, 32, 51, 32, 55, 48, 48>>   \* '2 106 / 3 700'

\* <div class="text_xp">current / total</div>
XpBar(text) == DivEl(ClsTextXp, text)
XpPage(num, total) == Page(<<XpBar(num \o <<32, 47, 32>> \o total)>>)
XpPages == {XpPage(num, TxtTotal) : num \in Numerators}
NbspXpPage == XpPage(TxtNbspNumerator, TxtNbspTotal)

\* Rows of the ratings table of a player page.
TextRow(texts) == RowEl([i \in 1..Len(texts) |-> TextCell(texts[i])])
\* 'По опыту' | '#12' | '15 430'
RowOpytA == TextRow(<<<<1055, 1086, 32, 1086, 1087, 1099, 1090, 1091>>, <<35, 49, 50>>,
                      <<49, 53, 32, 52, 51, 48>>>>)
\* 'Опыт' | '#3' | '7'
RowOpytB == TextRow(<<<<1054, 1087, 1099, 1090>>, <<35, 51>>, <<55>>>>)
\* 'По опыту' | '#1'
RowOpytShort == TextRow(<<<<1055, 1086, 32, 1086, 1087, 1099, 1090, 1091>>, <<35, 49>>>>)
\* 'По опыту' | '#5' | 'n/a'
RowOpytNoNumber == TextRow(<<<<1055, 1086, 32, 1086, 1087, 1099, 1090, 1091>>, <<35, 53>>,
                             <<110, 47, 97>>>>)
\* 'По киллам' | '#2' | '99'
RowKillam == TextRow(<<<<1055, 1086, 32, 1082, 1080, 1083, 1083, 1072, 1084>>, <<35, 50>>,
                       <<57, 57>>>>)
\* 'По опыту' | '#4' | '15\xa0430': the thousands separated by a no-break space
RowOpytNbsp == TextRow(<<<<1055, 1086, 32, 1086, 1087, 1099, 1090, 1091>>, <<35, 52>>,
                         <<49, 53, 160, 52, 51, 48>>>>)
RatingRows == {RowOpytA, RowOpytB, RowOpytShort, RowOpytNoNumber, RowOpytNbsp, RowKillam}

\* Rows of the ratings tables of one page.
MaxRows == 2

\* A player page: an XP bar or none, then the rows in one table, or in two
\* tables when split is less than their number.
RatingsPage(xp, rows, split) ==
    Page((IF xp = <<>> THEN <<>> ELSE <<XpBar(xp[1])>>)
         \o <<TableEl(Prefix(rows, split))>>
         \o (IF split < Len(rows)
             THEN <<TableEl(SubSeq(rows, split + 1, Len(rows)))>> ELSE <<>>))
XpChoices == {<<>>, <<TxtNoNumber>>, <<TxtXpSample>>}
RatingsPages ==
    {RatingsPage(xp, rows, split) :
        xp \in XpChoices,
        rows \in UNION {[1..n -> RatingRows] : n \in 0..MaxRows},
        split \in 1..2}

\* Image references.
SrcColonel ==     \* 'https://i.imgur.com/O6Tb9li.png'
    <<104, 116, 116, 112, 115, 58, 47, 47, 105, 46, 105, 109, 103, 117, 114, 46,
      99, 111, 109, 47, 79, 54, 84, 98, 57, 108, 105, 46, 112, 110, 103>>
SrcAlbum ==       \* 'https://imgur.com/a/O6Tb9li.png'
    <<104, 116, 116, 112, 115, 58, 47, 47, 105, 109, 103, 117, 114, 46, 99, 111, 109, 47,
      97, 47, 79, 54, 84, 98, 57, 108, 105, 46, 112, 110, 103>>
SrcSluzy ==       \* 'https://i.imgur.com/Sluzy'
    <<104, 116, 116, 112, 115, 58, 47, 47, 105, 46, 105, 109, 103, 117, 114, 46,
      99, 111, 109, 47, 83, 108, 117, 122, 121>>
SrcNotMapped ==   \* 'https://i.imgur.com/zzzzzzz.png'
    <<104, 116, 116, 112, 115, 58, 47, 47, 105, 46, 105, 109, 103, 117, 114, 46,
      99, 111, 109, 47, 122, 122, 122, 122, 122, 122, 122, 46, 112, 110, 103>>
SrcQuery ==       \* 'https://i.imgur.com/O6Tb9li.png?1'
    <<104, 116, 116, 112, 115, 58, 47, 47, 105, 46, 105, 109, 103, 117, 114, 46,
      99, 111, 109, 47, 79, 54, 84, 98, 57, 108, 105, 46, 112, 110, 103, 63, 49>>
SrcLongerName ==  \* 'https://i.imgur.com/xO6Tb9li.png'
    <<104, 116, 116, 112, 115, 58, 47, 47, 105, 46, 105, 109, 103, 117, 114, 46,
      99, 111, 109, 47, 120, 79, 54, 84, 98, 57, 108, 105, 46, 112, 110, 103>>
SrcOtherHost ==   \* 'https://cdn.example.com/O6Tb9li.png'
    <<104, 116, 116, 112, 115, 58, 47, 47, 99, 100, 110, 46, 101, 120, 97, 109, 112, 108,
      101, 46, 99, 111, 109, 47, 79, 54, 84, 98, 57, 108, 105, 46, 112, 110, 103>>
SrcBare ==        \* 'O6Tb9li.png'
    <<79, 54, 84, 98, 57, 108, 105, 46, 112, 110, 103>>
ImgRefs ==
    {SrcColonel, SrcAlbum, SrcSluzy, SrcNotMapped, SrcQuery, SrcLongerName,
     SrcOtherHost, SrcBare}

\* Rank markup of a player page: <font style="...">text</font>.
StyleGray == <<99, 111, 108, 111, 114, 58, 32, 103, 114, 97, 121>>         \* 'color: gray'
StyleGrayUpper == <<67, 79, 76, 79, 82, 58, 32, 71, 82, 65, 89>>           \* 'COLOR: GRAY'
StyleRed == <<99, 111, 108, 111, 114, 58, 32, 114, 101, 100>>              \* 'color: red'
\* 'R' followed by n - 1 times 'a'
TextOfLen(n) == [i \in 1..n |-> IF i = 1 THEN 82 ELSE 97]
FontGrayRu ==       \* gray 'полковник'
    FontEl(StyleGray, <<1087, 1086, 1083, 1082, 1086, 1074, 1085, 1080, 1082>>)
FontGrayPadded ==   \* gray, upper-case style, ' Maj '
    FontEl(StyleGrayUpper, <<32, 77, 97, 106, 32>>)
FontGrayShort == FontEl(StyleGray, <<97, 98>>)                  \* gray 'ab'
FontGray29 == FontEl(StyleGray, TextOfLen(29))
FontGray30 == FontEl(StyleGray, TextOfLen(30))
FontRed ==          \* red 'Генерал'
    FontEl(StyleRed, <<1043, 1077, 1085, 1077, 1088, 1072, 1083>>)
FontNoStyle ==      \* no style attribute, 'Капитан'
    FontEl(<<>>, <<1050, 1072, 1087, 1080, 1090, 1072, 1085>>)
RankFonts ==
    {FontGrayRu, FontGrayPadded, FontGrayShort, FontGray29, FontGray30, FontRed,
     FontNoStyle}

\* Font elements of one page.
MaxFonts == 2

\* A player page with a rank image or none, then at most MaxFonts font elements.
RankPage(img, fonts) == Page(img \o fonts)
RankImages ==
    {<<>>, <<ImgEl(<<SrcColonel>>)>>, <<ImgEl(<<SrcNotMapped>>)>>,
     <<ImgEl(<<SrcOtherHost>>)>>}
RankPages ==
    {RankPage(img, fonts) :
        img \in RankImages,
        fonts \in UNION {[1..n -> RankFonts] : n \in 0..MaxFonts}}

\* Rows of the statistics table of a player page: key | value.
\* 'У/П' | '1,85'
RowKdComma == TextRow(<<<<1059, 47, 1055>>, <<49, 44, 56, 53>>>>)
\* 'K/D' | 'n/a'
RowKdNa == TextRow(<<<<75, 47, 68>>, <<110, 47, 97>>>>)
\* 'Эффективность' | '0.5'
RowKdPoint == TextRow(<<<<1069, 1092, 1092, 1077, 1082, 1090, 1080, 1074, 1085, 1086,
                          1089, 1090, 1100>>, <<48, 46, 53>>>>)
\* 'У/П' | '-1,5'
RowKdMinus == TextRow(<<<<1059, 47, 1055>>, <<45, 49, 44, 53>>>>)
\* 'K/D' | 'nan'
RowKdNan == TextRow(<<<<75, 47, 68>>, <<110, 97, 110>>>>)
\* 'Уничтожил' | '1 234'
RowKills == TextRow(<<<<1059, 1085, 1080, 1095, 1090, 1086, 1078, 1080, 1083>>,
                      <<49, 32, 50, 51, 52>>>>)
\* 'Подбит' | 'n/a'
RowDeathsNa == TextRow(<<<<1055, 1086, 1076, 1073, 1080, 1090>>, <<110, 47, 97>>>>)
\* 'Поймано золотых ящиков' | '7'
RowGold == TextRow(<<<<1055, 1086, 1081, 1084, 1072, 1085, 1086, 32, 1079, 1086, 1083,
                       1086, 1090, 1099, 1093, 32, 1103, 1097, 1080, 1082, 1086, 1074>>,
                     <<55>>>>)
\* 'Премиум' | 'Да'
RowPremium == TextRow(<<<<1055, 1088, 1077, 1084, 1080, 1091, 1084>>, <<1044, 1072>>>>)
StatRows ==
    {RowKdComma, RowKdNa, RowKdPoint, RowKdMinus, RowKdNan, RowKills, RowDeathsNa,
     RowGold, RowPremium}

\* A player page that holds one statistics table of at most MaxRows rows.
StatTablePage(rows) == Page(<<TableEl(rows)>>)
StatTablePages ==
    {StatTablePage(rows) : rows \in UNION {[1..n -> StatRows] : n \in 0..MaxRows}}

\* Rows of the ratings table: category | position | value.
TxtPoOpytu == <<1055, 1086, 32, 1086, 1087, 1099, 1090, 1091>>            \* 'По опыту'
TxtPoKillam == <<1055, 1086, 32, 1082, 1080, 1083, 1083, 1072, 1084>>     \* 'По киллам'
TxtPoEffektivnosti ==                                                     \* 'По эффективности'
    <<1055, 1086, 32, 1101, 1092, 1092, 1077, 1082, 1090, 1080, 1074, 1085, 1086, 1089,
      1090, 1080>>
TxtPoKristallam ==                                                        \* 'По кристаллам'
    <<1055, 1086, 32, 1082, 1088, 1080, 1089, 1090, 1072, 1083, 1083, 1072, 1084>>
PlaceHashZero == <<35, 48>>        \* '#0'
PlaceZero == <<48>>                \* '0'
PlaceHashTwelve == <<35, 49, 50>>  \* '#12'
PlaceDash == <<8212>>              \* '—'
PositionRowOf(category, place) == TextRow(<<category, place, <<57, 57>>>>)
PositionRows ==
    {PositionRowOf(category, place) :
        category \in {TxtPoOpytu, TxtPoKillam, TxtPoEffektivnosti},
        place \in {PlaceHashZero, PlaceZero, PlaceHashTwelve}}
    \cup {PositionRowOf(TxtPoOpytu, PlaceDash), PositionRowOf(TxtPoKristallam, PlaceHashTwelve)}

\* A player page that holds one ratings table of at most MaxRows rows.
PositionPages ==
    {StatTablePage(rows) : rows \in UNION {[1..n -> PositionRows] : n \in 0..MaxRows}}

StatsPages ==
    XpPages \cup {NbspXpPage} \cup RatingsPages \cup StatTablePages \cup PositionPages
        \cup RankPages

\* Rows of a leaderboard table.  Row i reads i | image and link 'p<i>' | '<i> 000';
\* the even rows carry the Colonel image and the odd ones none.
BoardRow(i) ==
    RowEl(<<TextCell(IntToText(i)),
            CellEl(<<>>, IF i % 2 = 0 THEN <<ImgEl(<<SrcColonel>>)>> ELSE <<>>,
                   <<<<112>> \o IntToText(i)>>, <<>>),
            TextCell(IntToText(i) \o <<32, 48, 48, 48>>)>>)
\* the same row without the link: it does not qualify
PlainRow(i) ==
    TextRow(<<IntToText(i), <<112>> \o IntToText(i), IntToText(i) \o <<32, 48, 48, 48>>>>)
\* <h2>Топ по кристаллам</h2>
CrystalHeading ==
    TextEl("h2", <<1058, 1086, 1087, 32, 1087, 1086, 32, 1082, 1088, 1080, 1089, 1090,
                   1072, 1083, 1083, 1072, 1084>>)

\* the same words as a string of the body, in no element of their own
CrystalBareHeading == BareText(CrystalHeading.text)

\* Row counts of the main table: a few rows, and counts around the cap.
MaxSmallRows == 2
MaxOverCap == 1
RowCounts ==
    (0..MaxSmallRows) \cup ((LeaderboardCap - 1)..(LeaderboardCap + MaxOverCap))
\* Rows of the second table.
MaxSecondRows == 2

\* the rows of a table: rows first..last, every third one plain when gaps is set
BoardRows(first, last, gaps) ==
    [j \in 1..(last - first + 1) |->
        IF gaps /\ (first + j - 1) % 3 = 0 THEN PlainRow(first + j - 1)
        ELSE BoardRow(first + j - 1)]

\* A leaderboard page: a main table of n rows, a second table of m rows (none
\* when m = 0) that follows the main table or is nested in a cell of its last
\* row, and the crystals heading before the main table ("first"), after it
\* ("second"), at the end of the page ("last") or nowhere ("none"); "bare first",
\* "bare second" and "bare last" put the heading's words there as a string of
\* the body.
BoardPage(n, gaps, m, nested, heading) ==
    LET second == TableEl(BoardRows(201, 200 + m, gaps))
        holder == RowEl(<<CellEl(<<>>, <<>>, <<>>, <<second>>)>>)
        main == TableEl(BoardRows(1, n, gaps)
                        \o (IF m > 0 /\ nested THEN <<holder>> ELSE <<>>))
    IN Page((IF heading = "first" THEN <<CrystalHeading>> ELSE <<>>)
            \o (IF heading = "bare first" THEN <<CrystalBareHeading>> ELSE <<>>)
            \o <<main>>
            \o (IF heading = "second" THEN <<CrystalHeading>> ELSE <<>>)
            \o (IF heading = "bare second" THEN <<CrystalBareHeading>> ELSE <<>>)
            \o (IF m > 0 /\ ~nested THEN <<second>> ELSE <<>>)
            \o (IF heading = "last" THEN <<CrystalHeading>> ELSE <<>>)
            \o (IF heading = "bare last" THEN <<CrystalBareHeading>> ELSE <<>>))
LayoutPages ==
    {BoardPage(n, gaps, m, nested, heading) :
        n \in RowCounts, gaps \in BOOLEAN, m \in 0..MaxSecondRows,
        nested \in BOOLEAN, heading \in {"none", "first", "second", "last"}}

\* A leaderboard of one row whose player cell carries the image img (a sequence
\* of no or one element): 1 | img and link 'p1' | '1 000'
ImgBoardPage(img) ==
    Page(<<TableEl(<<RowEl(<<TextCell(<<49>>),
                             CellEl(<<>>, img, <<<<112, 49>>>>, <<>>),
                             TextCell(<<49, 32, 48, 48, 48>>)>>)>>)>>)
\* the player's image has one of the references, or no src attribute
ImgBoardPages ==
    {ImgBoardPage(<<ImgEl(<<src>>)>>) : src \in ImgRefs} \cup {ImgBoardPage(<<ImgEl(<<>>)>>)}

\* Small leaderboard pages whose crystals heading is a string of the body.
BareHeadingPages ==
    {BoardPage(n, FALSE, m, FALSE, heading) :
        n \in 0..MaxSmallRows, m \in 0..MaxSecondRows,
        heading \in {"bare first", "bare second", "bare last"}}

BoardPages == LayoutPages \cup ImgBoardPages \cup BareHeadingPages

TxtNick == <<80, 108, 97, 121, 101, 114>>              \* 'Player'
Categories == {CatExperience, CatCrystals, CatKills}

\* Every category a caller may pass: the two the code names, two more of the
\* leaderboard command and the empty string.
AnyCategories == Categories \cup {CatEfficiency, <<>>}

\* Pages served to lookups that differ in their category only: a main table of
\* one row and a second one of one row, with the crystals heading between them
\* or nowhere, and the page with no table.
CategoryPages ==
    {BoardPage(1, FALSE, 1, FALSE, heading) : heading \in {"none", "second"}}
        \cup {EmptyPage}

\* Pages served while several lookups and close() interleave.
FetchPages == {EmptyPage, XpPage(<<50, 32, 49, 48, 54>>, TxtTotal)}

(***************************************************************************)
(* Specifications                                                          *)
(***************************************************************************)

Init == TInit /\ SInit /\ RInit

\* One caller making one call of translate_text after the other.
SeqNext ==
    \/ \E text \in Texts :
            TranslateTextCall(1, text) /\ HistFull(1) /\ UNCHANGED <<svars, rvars>>
    \/ CheckCache(1) /\ HistFull(1) /\ UNCHANGED <<svars, rvars>>
    \/ ReturnCached(1) /\ HistFull(1) /\ UNCHANGED <<svars, rvars>>
    \/ TranslateTextSync(1) /\ HistFull(1) /\ UNCHANGED <<svars, rvars>>
    \/ StoreTranslated(1) /\ HistFull(1) /\ UNCHANGED <<svars, rvars>>

SpecSeq == Init /\ [][SeqNext]_vars

\* Several callers, each in its own executor thread, interleaved at every step.
RaceNext ==
    \E th \in Threads :
        \/ \E text \in RaceTexts :
                TranslateTextCall(th, text) /\ HistNone /\ UNCHANGED <<svars, rvars>>
        \/ CheckCache(th) /\ HistNone /\ UNCHANGED <<svars, rvars>>
        \/ ReturnCached(th) /\ HistNone /\ UNCHANGED <<svars, rvars>>
        \/ TranslateTextSync(th) /\ HistNone /\ UNCHANGED <<svars, rvars>>
        \/ StoreTranslated(th) /\ HistNone /\ UNCHANGED <<svars, rvars>>

SpecRace == Init /\ [][RaceNext]_vars

\* Several callers in executor threads, each making one call of
\* translate_text, on the same text or on different ones.
DupNext ==
    \E th \in Threads :
        \/ \E text \in DupTexts :
                /\ tret[th] = NoCall
                /\ TranslateTextCall(th, text) /\ HistNone /\ UNCHANGED <<svars, rvars>>
        \/ CheckCache(th) /\ HistNone /\ UNCHANGED <<svars, rvars>>
        \/ ReturnCached(th) /\ HistNone /\ UNCHANGED <<svars, rvars>>
        \/ TranslateTextSync(th) /\ HistNone /\ UNCHANGED <<svars, rvars>>
        \/ StoreTranslated(th) /\ HistNone /\ UNCHANGED <<svars, rvars>>

SpecDup == Init /\ [][DupNext]_vars

\* Concurrent get_leaderboard lookups, one per task, each with a category of
\* its own.
CategoryNext ==
    \E task \in Tasks :
        \/ \E category \in AnyCategories :
                /\ fkind[task] = "none"
                /\ BeginLookup(task, "board", category) /\ UNCHANGED <<tvars, rvars>>
        \/ \E status \in Statuses : GetResponds(task, status) /\ UNCHANGED <<tvars, rvars>>
        \/ GetRaises(task) /\ UNCHANGED <<tvars, rvars>>
        \/ \E page \in CategoryPages : TextRead(task, page) /\ UNCHANGED <<tvars, rvars>>
        \/ TextRaises(task) /\ UNCHANGED <<tvars, rvars>>

SpecCategory == Init /\ [][CategoryNext]_vars

\* Lookups and close() interleaved on the event loop.
FetchNext ==
    \/ \E task \in Tasks :
            \/ BeginLookup(task, "stats", TxtNick) /\ UNCHANGED <<tvars, rvars>>
            \/ BeginLookup(task, "board", CatExperience) /\ UNCHANGED <<tvars, rvars>>
            \/ \E status \in Statuses : GetResponds(task, status) /\ UNCHANGED <<tvars, rvars>>
            \/ GetRaises(task) /\ UNCHANGED <<tvars, rvars>>
            \/ \E page \in FetchPages : TextRead(task, page) /\ UNCHANGED <<tvars, rvars>>
            \/ TextRaises(task) /\ UNCHANGED <<tvars, rvars>>
    \/ Close /\ UNCHANGED <<tvars, rvars>>

SpecFetch == Init /\ [][FetchNext]_vars

\* One get_player_stats lookup after the other, over the player pages.
StatsNext ==
    \/ BeginLookup(1, "stats", TxtNick) /\ UNCHANGED <<tvars, rvars>>
    \/ \E status \in Statuses : GetResponds(1, status) /\ UNCHANGED <<tvars, rvars>>
    \/ GetRaises(1) /\ UNCHANGED <<tvars, rvars>>
    \/ \E page \in StatsPages : TextRead(1, page) /\ UNCHANGED <<tvars, rvars>>
    \/ TextRaises(1) /\ UNCHANGED <<tvars, rvars>>

SpecStats == Init /\ [][StatsNext]_vars

\* One get_leaderboard lookup after the other, over the leaderboard pages.
BoardNext ==
    \/ \E category \in Categories :
            BeginLookup(1, "board", category) /\ UNCHANGED <<tvars, rvars>>
    \/ \E status \in Statuses : GetResponds(1, status) /\ UNCHANGED <<tvars, rvars>>
    \/ GetRaises(1) /\ UNCHANGED <<tvars, rvars>>
    \/ \E page \in BoardPages : TextRead(1, page) /\ UNCHANGED <<tvars, rvars>>
    \/ TextRaises(1) /\ UNCHANGED <<tvars, rvars>>

SpecBoard == Init /\ [][BoardNext]_vars

\* The pages the site may serve to a lookup of a kind.
PagesFor(kind) ==
    IF kind = "stats" THEN StatsPages \cup {EmptyPage} ELSE BoardPages \cup {EmptyPage}

\* One lookup of either kind after the other, over every page of its kind.
LookupNext ==
    \/ BeginLookup(1, "stats", TxtNick) /\ UNCHANGED <<tvars, rvars>>
    \/ \E category \in Categories :
            BeginLookup(1, "board", category) /\ UNCHANGED <<tvars, rvars>>
    \/ \E status \in Statuses : GetResponds(1, status) /\ UNCHANGED <<tvars, rvars>>
    \/ GetRaises(1) /\ UNCHANGED <<tvars, rvars>>
    \/ \E page \in PagesFor(fkind[1]) : TextRead(1, page) /\ UNCHANGED <<tvars, rvars>>
    \/ TextRaises(1) /\ UNCHANGED <<tvars, rvars>>

SpecLookup == Init /\ [][LookupNext]_vars

\* The pages served while rank names are resolved.
RankPagesFor(kind) == IF kind = "stats" THEN RankPages ELSE ImgBoardPages

\* translate_rank calls and lookups of either kind, one after the other.
RanksNext ==
    \/ \E rank_text \in RankTexts :
            TranslateRankCall(1, rank_text) /\ UNCHANGED <<tvars, svars>>
    \/ BeginLookup(1, "stats", TxtNick) /\ UNCHANGED <<tvars, rvars>>
    \/ BeginLookup(1, "board", CatExperience) /\ UNCHANGED <<tvars, rvars>>
    \/ \E status \in Statuses : GetResponds(1, status) /\ UNCHANGED <<tvars, rvars>>
    \/ GetRaises(1) /\ UNCHANGED <<tvars, rvars>>
    \/ \E page \in RankPagesFor(fkind[1]) : TextRead(1, page) /\ UNCHANGED <<tvars, rvars>>
    \/ TextRaises(1) /\ UNCHANGED <<tvars, rvars>>

SpecRanks == Init /\ [][RanksNext]_vars

(***************************************************************************)
(* Properties of the scraper                                               *)
(***************************************************************************)

\* the task has made a lookup and it has returned
Returned(task) == fpc[task] = "idle" /\ fkind[task] # "none"

\* the fetch of the task's last lookup got no page: no response, a status other
\* than 200, or a body that could not be read
FetchFailed(task) == ~(fnet[task].status = 200 /\ fnet[task].body = "ok")

\* C5: _fetch_page issues at most one GET per call and never raises; it returns
\* the text of the page exactly when the response had status 200 and its body
\* was read, and None on any other status and on any exception.
C5_FetchPageContract ==
    \A task \in Tasks :
        /\ fgets[task] <= 1
        /\ Returned(task) =>
            /\ fpage[task][1] \in {"str", "None"}
            /\ fpage[task][1] = "str" <=> ~FetchFailed(task)
            /\ fpage[task][1] = "str" => fpage[task][2] = fdoc[task][1]
            /\ fnet[task].get = "raised" => fpage[task][1] = "None"
            /\ (fnet[task].get = "responded" /\ fnet[task].status # 200)
                    => fpage[task][1] = "None"

\* one fetch returned a page while another returned None on a 404
C5_Witness ==
    \E t1, t2 \in Tasks :
        /\ Returned(t1) /\ fpage[t1][1] = "str" /\ fgets[t1] = 1
        /\ Returned(t2) /\ fnet[t2].status = 404 /\ fpage[t2][1] = "None"

\* C6 as stated: any two fetches in flight at the same time hold the same session.
C6_OverlappingShareSession ==
    \A t1, t2 \in Tasks :
        (fpc[t1] # "idle" /\ fpc[t2] # "idle") => fsess[t1] = fsess[t2]

C6_AtMostOneOpen == Cardinality((1..nsess) \ sclosed) <= 1

C6_OpenFetchesShare ==
    \A task \in Tasks :
        (fpc[task] # "idle" /\ fsess[task] \notin sclosed) => fsess[task] = session

C6_CreatedOnlyWhenNeeded ==
    session' # session =>
        /\ session = 0 \/ session \in sclosed
        /\ session' = nsess' /\ nsess' = nsess + 1 /\ session' \notin sclosed'

\* C6: across any interleaving of lookups and close(), a session is created
\* only when there is none or the current one is closed, at most one unclosed
\* session exists, and every fetch in flight whose session is not closed holds
\* the current session.
C6_SessionReuse ==
    /\ [](C6_AtMostOneOpen /\ C6_OpenFetchesShare)
    /\ [][C6_CreatedOnlyWhenNeeded]_vars

\* two fetches in flight share the session that was created after a close()
C6_Witness ==
    /\ fpc[1] # "idle" /\ fpc[2] # "idle"
    /\ fsess[1] = session /\ fsess[2] = session
    /\ session = 2 /\ sclosed = {1}

\* C7: a lookup never raises: get_player_stats returns a record or None,
\* get_leaderboard a list or None, whatever page was served and however the
\* fetch went; and when the fetch fails the lookup returns None.
C7_LookupNeverRaises ==
    \A task \in Tasks :
        Returned(task) =>
            /\ fkind[task] = "stats" => fret[task][1] \in {"dict", "None"}
            /\ fkind[task] = "board" => fret[task][1] \in {"list", "None"}
            /\ FetchFailed(task) => fret[task][1] = "None"

\* get_player_stats returned None on a page whose parsing raises ValueError
C7_Witness ==
    /\ Returned(1) /\ fkind[1] = "stats"
    /\ fdoc[1] = <<NbspXpPage>>
    /\ fret[1][1] = "None"

\* the rows get_leaderboard is to report from, each once, in document order: the
\* rows of the crystals table when that branch is taken, else all rows of the page
C8_SourceRows(page, category) ==
    IF category = CatCrystals /\ CrystalTable(page) # <<>>
    THEN FindAllTr(CrystalTable(page)[1])
    ELSE OfKind(ItemsOfNodes(page.body), "tr")

\* C8: get_leaderboard returns at most 100 entries, and they are the entries of
\* the first qualifying rows of the page in document order, each row once.
C8_FirstQualifyingRows ==
    \A task \in Tasks :
        (Returned(task) /\ fkind[task] = "board" /\ fret[task][1] = "list") =>
            /\ Len(fret[task][2]) <= LeaderboardCap
            /\ fret[task][2] =
                    Prefix(EntriesOfRows(C8_SourceRows(fdoc[task][1], farg[task])),
                           LeaderboardCap)

\* C9: on a page whose XP bar reads "current / total", get_player_stats returns
\* a record whose experience is the whole numerator with its spaces removed,
\* for every numerator, with or without separated thousands.
C9_WholeNumerator ==
    \A task \in Tasks :
        (Returned(task) /\ fkind[task] = "stats" /\ fdoc[task] # <<>>) =>
            \A num \in Numerators :
                fdoc[task][1] = XpPage(num, TxtTotal) =>
                    /\ fret[task][1] = "dict"
                    /\ fret[task][2].experience = DigitsValue(RemoveChar(num, 32))

\* the text of the first XP bar of the page, as a sequence of no or one text
C10_BarText(page) ==
    LET bars == SelectSeq(OfKind(ItemsOfNodes(page.body), "div"),
                          LAMBDA e : e.attr = ClsTextXp)
    IN IF bars = <<>> THEN <<>> ELSE <<Strip(bars[1].text)>>

C10_HasDigit(text) == \E i \in 1..Len(text) : IsDigit(text[i])

C10_NumberIn(text) == MatchToInt(RegexNumber(text)[1])[2]

C10_Qualifies(row) ==
    LET cells == FindAllTd(row)
    IN /\ Len(cells) >= 3
       /\ \/ Contains(KwPoOpytu, Lower(CellText(cells[1])))
          \/ Contains(KwOpyt, Lower(CellText(cells[1])))
       /\ C10_HasDigit(CellText(cells[3]))

\* C10: in a record get_player_stats returns, experience is the number of the
\* XP bar when the bar holds one; otherwise the number in the third cell of the
\* first row in document order that has at least three cells, an experience
\* keyword in the first and a number in the third; otherwise the default 0.
C10_FallbackOrdering ==
    \A task \in Tasks :
        (Returned(task) /\ fkind[task] = "stats" /\ fret[task][1] = "dict") =>
            LET page == fdoc[task][1]
                bar == C10_BarText(page)
                hits == SelectSeq(OfKind(ItemsOfNodes(page.body), "tr"), C10_Qualifies)
                experience == fret[task][2].experience
            IN IF bar # <<>> /\ C10_HasDigit(bar[1])
               THEN experience = C10_NumberIn(bar[1])
               ELSE IF hits # <<>>
               THEN experience = C10_NumberIn(CellText(FindAllTd(hits[1])[3]))
               ELSE experience = 0

\* no XP bar; the first table holds the row 'По опыту | #12 | 15 430', the
\* second the row 'Опыт | #3 | 7': experience is 15430
C10_Witness ==
    /\ Returned(1) /\ fkind[1] = "stats"
    /\ fdoc[1] = <<RatingsPage(<<>>, <<RowOpytA, RowOpytB>>, 1)>>
    /\ fret[1][1] = "dict"
    /\ fret[1][2].experience = 15430

\* a row that reaches the K/D branch of the statistics pass: its first cell holds
\* a K/D keyword and no kills or deaths keyword
C11_IsKdRow(row) ==
    LET key == Lower(CellText(FindAllTd(row)[1]))
    IN /\ Len(FindAllTd(row)) >= 2
       /\ Contains(KwUP, key) \/ Contains(KwKD, key) \/ Contains(KwEffektivnost, key)
       /\ ~(Contains(KwUnichtozhil, key) \/ Contains(KwKills, key))
       /\ ~(Contains(KwPodbit, key) \/ Contains(KwDeaths, key))

\* digits, one decimal comma, digits
C11_DecimalComma(value) ==
    \E c \in 2..(Len(value) - 1) :
        /\ value[c] = 44
        /\ \A i \in (1..Len(value)) \ {c} : IsDigit(value[i])

\* the decimal a value with a decimal comma stands for: 1,85 is 185 / 10^2
C11_Decimal(value) ==
    LET c == CHOOSE i \in 1..Len(value) : value[i] = 44
        frac == DropTrailingZeros(SubSeq(value, c + 1, Len(value)))
    IN <<"float", FALSE, DigitsValue(SubSeq(value, 1, c - 1) \o frac), Len(frac)>>

\* a value that is no number at all: it holds no digit and is not inf or nan
C11_Malformed(value) ==
    /\ \A i \in 1..Len(value) : ~IsDigit(value[i])
    /\ ~Contains(<<105, 110, 102>>, Lower(value))
    /\ ~Contains(<<110, 97, 110>>, Lower(value))

\* C11: when the last row of the statistics table is a K/D row, the record is
\* the record of the page without that row, with kd_ratio set to the decimal
\* when the value uses a decimal comma ("1,85" gives 1.85), and with nothing
\* changed, kd_ratio included, when the value does not parse ("n/a").
C11_KdCoercion ==
    \A task \in Tasks :
        (/\ Returned(task) /\ fkind[task] = "stats" /\ fret[task][1] = "dict"
         /\ fdoc[task][1] \in StatTablePages
         /\ fdoc[task][1].body[1].rows # <<>>) =>
            LET rows == fdoc[task][1].body[1].rows
                last == rows[Len(rows)]
                value == CellText(FindAllTd(last)[2])
                before == ParsePlayerStats(
                              StatTablePage(SubSeq(rows, 1, Len(rows) - 1)),
                              farg[task])[2]
            IN C11_IsKdRow(last) =>
                /\ C11_DecimalComma(value) =>
                        fret[task][2] = [before EXCEPT !.kd_ratio = C11_Decimal(value)]
                /\ C11_Malformed(value) => fret[task][2] = before

\* 'У/П | 1,85' then 'K/D | n/a': kd_ratio is 1.85
C11_Witness ==
    /\ Returned(1) /\ fkind[1] = "stats"
    /\ fdoc[1] = <<StatTablePage(<<RowKdComma, RowKdNa>>)>>
    /\ fret[1][1] = "dict"
    /\ fret[1][2].kd_ratio = <<"float", FALSE, 185, 2>>

\* the ranking-position fields get_player_stats fills
C12_PositionFields == {"experience_rank", "kills_rank", "efficiency_rank"}

\* a row the ranking positions pass takes the field from: at least three cells
\* and, in the first, the phrase of the field and of no field tested before it
C12_IsRowOf(field, row) ==
    LET category == Lower(CellText(FindAllTd(row)[1]))
        opyt == Contains(KwPoOpytu, category)
        gold == Contains(KwGoldolovov, category) \/ Contains(KwZolot, category)
        kill == Contains(KwPoKillam, category)
    IN /\ Len(FindAllTd(row)) >= 3
       /\ CASE field = "experience_rank" -> opyt
            [] field = "kills_rank" -> ~opyt /\ ~gold /\ kill
            [] field = "efficiency_rank" ->
                    ~opyt /\ ~gold /\ ~kill /\ Contains(KwPoEffektivnosti, category)

\* the rows of a page that set the field, in the order the pass visits them
C12_RowsOf(field, page) ==
    SelectSeq(RowVisits(page), LAMBDA row : C12_IsRowOf(field, row))

\* C12: no ranking-position field of a returned record is the literal '0', and
\* a field whose last row reads '0' or '#0' in its second cell is 'N/A'.
C12_ZeroIsNotAvailable ==
    \A task \in Tasks :
        (Returned(task) /\ fkind[task] = "stats" /\ fret[task][1] = "dict") =>
            /\ fret[task][2].crystals_rank # PlaceZero
            /\ \A field \in C12_PositionFields :
                LET rows == C12_RowsOf(field, fdoc[task][1])
                IN /\ fret[task][2][field] # PlaceZero
                   /\ (/\ rows # <<>>
                       /\ CellText(FindAllTd(rows[Len(rows)])[2])
                                \in {PlaceZero, PlaceHashZero})
                        => fret[task][2][field] = StrNA

\* 'По киллам | #12' then 'По киллам | #0': kills_rank is 'N/A'
C12_Witness ==
    /\ Returned(1) /\ fkind[1] = "stats"
    /\ fdoc[1] = <<StatTablePage(<<PositionRowOf(TxtPoKillam, PlaceHashTwelve),
                                   PositionRowOf(TxtPoKillam, PlaceHashZero)>>)>>
    /\ fret[1][1] = "dict"
    /\ fret[1][2].kills_rank = StrNA

\* a title-cased English string, or 'Unknown' or 'Unknown Rank'
C13_IsCanonical(name) ==
    \/ name \in {StrUnknown, StrUnknownRank}
    \/ name # <<>> /\ IsAsciiText(name) /\ name = Title(name)

\* C13: every rank name the core produces is a title-cased English string or
\* 'Unknown' or 'Unknown Rank': the result of translate_rank, the rank of a
\* record of get_player_stats, and the rank of every leaderboard entry.
C13_RankNamesCanonical ==
    /\ \A th \in Threads :
            rret[th] # NoCall => C13_IsCanonical(rret[th].result)
    /\ \A task \in Tasks :
            /\ (Returned(task) /\ fkind[task] = "stats" /\ fret[task][1] = "dict")
                    => C13_IsCanonical(fret[task][2].rank)
            /\ (Returned(task) /\ fkind[task] = "board" /\ fret[task][1] = "list")
                    => \A i \in 1..Len(fret[task][2]) :
                            C13_IsCanonical(fret[task][2][i].rank)

\* a float that is a number and is not below zero
C14_NonNegativeFloat(x) ==
    /\ Len(x) = 4
    /\ x[1] = "float" /\ x[2] = FALSE /\ x[3] \in Nat /\ x[4] \in Nat

\* C14: in every record get_player_stats returns, experience, kills, deaths and
\* goldboxes are integers that are not negative and kd_ratio is a float that is
\* not negative; on a page without table rows kills, deaths and goldboxes are 0
\* and kd_ratio is 0.0, and without an XP bar also experience is 0.
C14_NumericFieldsNonNegative ==
    \A task \in Tasks :
        (Returned(task) /\ fkind[task] = "stats" /\ fret[task][1] = "dict") =>
            LET d == fret[task][2]
                page == fdoc[task][1]
            IN /\ {"experience", "kills", "deaths", "goldboxes", "kd_ratio"}
                        \subseteq DOMAIN d
               /\ d.experience \in Nat /\ d.kills \in Nat
               /\ d.deaths \in Nat /\ d.goldboxes \in Nat
               /\ C14_NonNegativeFloat(d.kd_ratio)
               /\ RowVisits(page) = <<>> =>
                    /\ d.kills = 0 /\ d.deaths = 0 /\ d.goldboxes = 0
                    /\ d.kd_ratio = FloatZero
                    /\ ExperienceFromXpBar(page) = <<>> => d.experience = 0

\* the digits of a positive integer
C15_IsPositiveInteger(v) ==
    /\ v # <<>>
    /\ \A i \in 1..Len(v) : IsDigit(v[i])
    /\ DigitsValue(v) > 0

\* C15: in every record get_player_stats returns, each of experience_rank,
\* kills_rank, efficiency_rank and crystals_rank is a positive integer or 'N/A',
\* whatever the second cell of the matching row reads.
C15_PositionsPositiveOrNA ==
    \A task \in Tasks :
        (Returned(task) /\ fkind[task] = "stats" /\ fret[task][1] = "dict") =>
            \A field \in {"experience_rank", "kills_rank", "efficiency_rank",
                           "crystals_rank"} :
                \/ fret[task][2][field] = StrNA
                \/ C15_IsPositiveInteger(fret[task][2][field])

C16_KeyColonel == <<79, 54, 84, 98, 57, 108, 105, 46, 112, 110, 103>>    \* 'O6Tb9li.png'
C16_Colonel == <<67, 111, 108, 111, 110, 101, 108>>                      \* 'Colonel'

C16_EndsWith(s, suffix) ==
    /\ Len(s) >= Len(suffix)
    /\ SubSeq(s, Len(s) - Len(suffix) + 1, Len(s)) = suffix

\* the trailing filename of a reference: what follows its last '/'
C16_Filename(src) ==
    LET k == CHOOSE n \in 0..Len(src) :
                /\ \A i \in (Len(src) - n + 1)..Len(src) : src[i] # 47
                /\ (n = Len(src) \/ src[Len(src) - n] = 47)
    IN SubSeq(src, Len(src) - k + 1, Len(src))

\* the rank get_leaderboard reports for the one row of the page
C16_RankOfRow(task) == fret[task][2][1].rank

\* the leaderboard of one row whose image has the reference src was parsed
C16_Parsed(task, src) ==
    /\ Returned(task) /\ fkind[task] = "board" /\ fret[task][1] = "list"
    /\ fdoc[task] = <<ImgBoardPage(<<ImgEl(<<src>>)>>)>>

\* C16 as stated: every image reference ending in 'O6Tb9li.png' is mapped to
\* 'Colonel', and every reference whose trailing filename is not a key of the
\* table to 'Unknown Rank'.
C16_EveryReferenceEndingIn ==
    \A task \in Tasks : \A src \in ImgRefs :
        C16_Parsed(task, src) =>
            /\ C16_EndsWith(src, C16_KeyColonel) => C16_RankOfRow(task) = C16_Colonel
            /\ C16_Filename(src) \notin DOMAIN rank_mappings
                    => C16_RankOfRow(task) = StrUnknownRank

\* C16: every image reference that contains 'imgur.com' and whose trailing
\* filename is exactly 'O6Tb9li.png' is mapped to 'Colonel', and every reference
\* whose trailing filename is not a key of the table to 'Unknown Rank'.
C16_ImgurReferenceNamed ==
    \A task \in Tasks : \A src \in ImgRefs :
        C16_Parsed(task, src) =>
            /\ (Contains(StrImgur, src) /\ C16_Filename(src) = C16_KeyColonel)
                    => C16_RankOfRow(task) = C16_Colonel
            /\ C16_Filename(src) \notin DOMAIN rank_mappings
                    => C16_RankOfRow(task) = StrUnknownRank

\* 'https://imgur.com/a/O6Tb9li.png' was mapped to 'Colonel'
C16_Witness ==
    /\ C16_Parsed(1, SrcAlbum)
    /\ C16_RankOfRow(1) = C16_Colonel

\* the gray-styled font elements of a page whose text is longer than 2 and
\* shorter than 30 characters, in document order
C17_FittingFonts(page) ==
    SelectSeq(OfKind(ItemsOfNodes(page.body), "font"),
              LAMBDA e : /\ Contains(KwGray, Lower(e.attr))
                         /\ Len(Strip(e.text)) > 2
                         /\ Len(Strip(e.text)) < 30)

\* the images of a page whose reference names the image host
C17_HostedImages(page) ==
    SelectSeq(OfKind(ItemsOfNodes(page.body), "img"),
              LAMBDA e : e.attr # <<>> /\ Contains(StrImgur, e.attr[1]))

\* what the image path makes of a hosted reference
C17_ImageRank(src) ==
    IF C16_Filename(src) \in DOMAIN rank_mappings
    THEN rank_mappings[C16_Filename(src)] ELSE StrUnknownRank

\* C17: the rank of a record is the text of the first gray-styled font element
\* whose text is longer than 2 and shorter than 30 characters, whether or not
\* the image path produced a rank; without such an element it is the result of
\* the image path; and when neither path matches it is the default 'Unknown'.
C17_RankPrecedence ==
    \A task \in Tasks :
        (Returned(task) /\ fkind[task] = "stats" /\ fret[task][1] = "dict") =>
            LET fonts == C17_FittingFonts(fdoc[task][1])
                imgs == C17_HostedImages(fdoc[task][1])
            IN fret[task][2].rank =
                    IF fonts # <<>> THEN Strip(fonts[1].text)
                    ELSE IF imgs # <<>> THEN C17_ImageRank(imgs[1].attr[1])
                    ELSE StrUnknown

\* the Colonel image, then gray 'ab' and gray 'полковник': rank is 'полковник'
C17_Witness ==
    /\ Returned(1) /\ fkind[1] = "stats"
    /\ fdoc[1] = <<RankPage(<<ImgEl(<<SrcColonel>>)>>, <<FontGrayShort, FontGrayRu>>)>>
    /\ fret[1][1] = "dict"
    /\ fret[1][2].rank = <<1087, 1086, 1083, 1082, 1086, 1074, 1085, 1080, 1082>>

\* the place, among the items of a page, of the first string that holds the
\* crystals label, whatever holds the string; 0 when there is none
C18_Heading(page) ==
    LET items == ItemsOfNodes(page.body)
        at == {i \in 1..Len(items) :
                    /\ items[i].k \in {"text", "bodytext"}
                    /\ Contains(KwKristall, items[i].v)}
    IN IF at = {} THEN 0 ELSE CHOOSE i \in at : \A j \in at : i <= j

\* the tables that start after the heading, in document order
C18_FollowingTables(page) ==
    LET items == ItemsOfNodes(page.body)
    IN OfKind(SubSeq(items, C18_Heading(page) + 1, Len(items)), "table")

\* C18: for category 'crystals', when the page holds the crystals heading and a
\* table follows it, get_leaderboard returns the entries of the rows of the
\* nearest following table and no others; when the page holds no such heading,
\* it returns what the default scan of the whole page returns.
C18_CrystalsSection ==
    \A task \in Tasks :
        (/\ Returned(task) /\ fkind[task] = "board" /\ fret[task][1] = "list"
         /\ farg[task] = CatCrystals) =>
            LET page == fdoc[task][1]
            IN /\ (C18_Heading(page) # 0 /\ C18_FollowingTables(page) # <<>>) =>
                    fret[task][2] =
                        Prefix(EntriesOfRows(FindAllTr(C18_FollowingTables(page)[1])),
                               LeaderboardCap)
               /\ C18_Heading(page) = 0 =>
                    fret[task][2] = ParseLeaderboard(page, CatExperience)[2]

\* the next step of a thread's call of translate_text
C19_StepOf(th) ==
    \/ CheckCache(th) /\ HistNone /\ UNCHANGED <<svars, rvars>>
    \/ ReturnCached(th) /\ HistNone /\ UNCHANGED <<svars, rvars>>
    \/ TranslateTextSync(th) /\ HistNone /\ UNCHANGED <<svars, rvars>>
    \/ StoreTranslated(th) /\ HistNone /\ UNCHANGED <<svars, rvars>>

\* a call in progress can always take its next step, whatever the other
\* threads are doing and whichever text they are called with
C19_NeverBlocked == \A th \in Threads : tpc[th] # "idle" => ENABLED C19_StepOf(th)

\* a call that finds its text uncached, not English and in no dictionary goes
\* on to the external translation, also while another call is translating
\* the same text
C19_UncachedGoesToService ==
    \A th \in Threads :
        (/\ tpc[th] = "check" /\ tpc'[th] # "check"
         /\ targ[th] # <<>> /\ targ[th] \notin DOMAIN cache
         /\ ~IsEnglishText(targ[th])
         /\ Normalized(targ[th]) \notin DOMAIN common_translations)
            => tpc'[th] = "ext"

\* C19: concurrent translate_text calls are not deduplicated: a call on an
\* uncached text always goes on to the external translation, whether or not
\* another call is already translating the same text, and no call is ever
\* blocked by another, on the same text or on a different one.
C19_DuplicationWindow ==
    /\ []C19_NeverBlocked
    /\ [][C19_UncachedGoesToService]_vars

\* two threads have both run the external translation of 'привет' and neither
\* has stored its result yet
C19_Witness ==
    /\ tpc[1] = "store" /\ tpc[2] = "store"
    /\ targ[1] = TxtPrivet /\ targ[2] = TxtPrivet
    /\ TxtPrivet \notin DOMAIN cache

\* a get_leaderboard lookup has returned
C20_Returned(task) == fkind[task] = "board" /\ fpc[task] = "idle"

\* two lookups were served the same document
C20_SameDocument(t1, t2) == fdoc[t1] # <<>> /\ fdoc[t1] = fdoc[t2]

\* C20: get_leaderboard ignores the category unless it is 'crystals': any two
\* lookups with categories other than 'crystals' fetch the same url, and when
\* they were served the same document they return identical entry lists.
C20_CategoryIgnored ==
    \A t1, t2 \in Tasks :
        (/\ fkind[t1] = "board" /\ fkind[t2] = "board"
         /\ farg[t1] # CatCrystals /\ farg[t2] # CatCrystals)
            => /\ furl[t1] = furl[t2]
               /\ (C20_Returned(t1) /\ C20_Returned(t2) /\ C20_SameDocument(t1, t2))
                    => fret[t1] = fret[t2]

\* lookups with 'kills' and with 'efficiency' both returned the entries of both
\* tables of a page, which a lookup with 'crystals' does not return
C20_Witness ==
    /\ C20_Returned(1) /\ C20_Returned(2)
    /\ farg[1] = CatKills /\ farg[2] = CatEfficiency
    /\ fdoc[1] = <<BoardPage(1, FALSE, 1, FALSE, "second")>>
    /\ C20_SameDocument(1, 2)
    /\ fret[1] = fret[2]
    /\ fret[1][1] = "list" /\ Len(fret[1][2]) = 2
    /\ fret[1] # ParseLeaderboard(fdoc[1][1], CatCrystals)

\* the page holds the crystals heading and no table starts after it
C21_NoTableFollows(page) ==
    C18_Heading(page) # 0 /\ C18_FollowingTables(page) = <<>>

\* C21: for category 'crystals', when the page holds the crystals heading but
\* no table follows it, get_leaderboard returns what the default scan of the
\* whole page returns, cut to 100 entries: neither None nor another list.
C21_DegradesToFullScan ==
    \A task \in Tasks :
        (/\ Returned(task) /\ fkind[task] = "board" /\ farg[task] = CatCrystals
         /\ fdoc[task] # <<>> /\ fdoc[task][1].html
         /\ C21_NoTableFollows(fdoc[task][1])) =>
            fret[task] = <<"list", TopEntries(ScanAllTables(fdoc[task][1]))>>

====
